---- MODULE Spec2Model ----
(***************************************************************************)
(* A model of the audio/video composition pipeline of content-factory:     *)
(* the live VideoRenderer (client/js/video-renderer.js), the page-side     *)
(* frame loop of the sample generator, and the AudioMixer                  *)
(* (client/js/audio-mixer.js).                                             *)
(*                                                                         *)
(* Every object is one record-valued variable whose fields carry the       *)
(* source's names; a method is an operator from the record before the call *)
(* to the record after it, so that a method calling another (dispose ->    *)
(* stop, animate -> stop) is the composition of the two operators.  The    *)
(* browser objects a method drives (the animation-frame queue, the         *)
(* MediaRecorder, the AudioContext, the promise returned to the caller)    *)
(* are fields of the same record.                                          *)
(***************************************************************************)
EXTENDS Integers, Sequences, FiniteSets, TLC

VARIABLES vr, pg, am, wav, av, cap, bt, env, dsp, tpl, srv, gs, wr

vars == <<vr, pg, am, wav, av, cap, bt, env, dsp, tpl, srv, gs, wr>>

\* What the steps of one component leave alone.
notVR == <<pg, am, wav, av, cap, bt, env, dsp, tpl, srv, gs, wr>>
notPG == <<vr, am, wav, av, cap, bt, env, dsp, tpl, srv, gs, wr>>
notAM == <<vr, pg, wav, av, cap, bt, env, dsp, tpl, srv, gs, wr>>
notWAV == <<vr, pg, am, av, cap, bt, env, dsp, tpl, srv, gs, wr>>
notAV == <<vr, pg, am, wav, cap, bt, env, dsp, tpl, srv, gs, wr>>
notCAP == <<vr, pg, am, wav, av, bt, env, dsp, tpl, srv, gs, wr>>
notBT == <<vr, pg, am, wav, av, cap, env, dsp, tpl, srv, gs, wr>>
notENV == <<vr, pg, am, wav, av, cap, bt, dsp, tpl, srv, gs, wr>>
notDSP == <<vr, pg, am, wav, av, cap, bt, env, tpl, srv, gs, wr>>
notTPL == <<vr, pg, am, wav, av, cap, bt, env, dsp, srv, gs, wr>>
notSRV == <<vr, pg, am, wav, av, cap, bt, env, dsp, tpl, gs, wr>>
notGS == <<vr, pg, am, wav, av, cap, bt, env, dsp, tpl, srv, wr>>
notWR == <<vr, pg, am, wav, av, cap, bt, env, dsp, tpl, srv, gs>>

Null == "null"

\* ------------------------------------------------------------------ bounds
\* Render durations offered to render(): 0..MaxDuration clock units.
MaxDuration == 2
\* The clock advances by 1..MaxDt units between two animation frames.
MaxDt == 2

Durations == 0..MaxDuration
Dts == 1..MaxDt

\* What the caller's onProgress callback does with the renderer it is given.
Callbacks == {"none", "stop", "dispose"}

(***************************************************************************)
(* VideoRenderer                                                           *)
(***************************************************************************)

\* constructor: no canvas, no audio context, no recorder, no frame scheduled.
\* rafQueue, stopEvent, promise and clock are the browser's side: the
\* animation-frame callbacks still scheduled, the recorder's queued stop
\* event, the promise render() returned, performance.now().  frames,
\* lastFrameAt, stopped, frameAfterStop, closeRejected, resolves and op are
\* history: frames drawn, elapsed time of the last frame drawn, whether
\* stop() ran since the render began, whether a frame was drawn after that,
\* whether close() was called on a closed AudioContext (it rejects with
\* InvalidStateError), calls of resolve(), the last step taken.
VRInit ==
  [ canvas        |-> FALSE,
    audioContext  |-> Null,
    mediaRecorder |-> Null,
    isRecording   |-> FALSE,
    animationId   |-> 0,
    startTime     |-> 0,
    duration      |-> 0,
    rafQueue      |-> {},
    nextRaf       |-> 1,
    stopEvent     |-> FALSE,
    promise       |-> "none",
    clock         |-> 0,
    frames        |-> 0,
    lastFrameAt   |-> -1,
    stopped       |-> FALSE,
    frameAfterStop |-> FALSE,
    closeRejected |-> FALSE,
    resolves      |-> 0,
    op            |-> "new" ]

\* initialize(): a fresh canvas and a fresh AudioContext.
VRInitialize(r) ==
  [r EXCEPT !.canvas = TRUE, !.audioContext = "running"]

\* stop() without the recorder's stop: the frame loop and the audio context
\* are torn down but the capture is left running.
VRStopKeepsRecorder(r) ==
  LET r1 == IF r.animationId # 0
              THEN [r EXCEPT !.rafQueue = @ \ {r.animationId}, !.animationId = 0]
              ELSE r
      r3 == IF r1.audioContext # Null
              THEN IF r1.audioContext = "closed"
                     THEN [r1 EXCEPT !.closeRejected = TRUE]
                     ELSE [r1 EXCEPT !.audioContext = "closed"]
              ELSE r1
  IN  [r3 EXCEPT !.isRecording = FALSE, !.stopped = TRUE]

\* stop(): cancel the scheduled frame, stop the recorder unless inactive
\* (which queues its stop event), close the audio context whenever there is
\* one, clear isRecording.
VRStop(r) ==
  LET r1 == IF r.animationId # 0
              THEN [r EXCEPT !.rafQueue = @ \ {r.animationId}, !.animationId = 0]
              ELSE r
      r2 == IF r1.mediaRecorder # Null /\ r1.mediaRecorder # "inactive"
              THEN [r1 EXCEPT !.mediaRecorder = "inactive", !.stopEvent = TRUE]
              ELSE r1
      r3 == IF r2.audioContext # Null
              THEN IF r2.audioContext = "closed"
                     THEN [r2 EXCEPT !.closeRejected = TRUE]
                     ELSE [r2 EXCEPT !.audioContext = "closed"]
              ELSE r2
  IN  [r3 EXCEPT !.isRecording = FALSE, !.stopped = TRUE]

\* dispose(): stop(), then drop the canvas (and its 2d context) and the
\* recorder.  The dropped recorder still delivers its queued stop event.
VRDispose(r) ==
  LET r1 == VRStop(r)
  IN  [r1 EXCEPT !.canvas = FALSE, !.mediaRecorder = Null]

\* The caller's onProgress callback.
OnProgress(r, cb) ==
  CASE cb = "stop"    -> VRStop(r)
    [] cb = "dispose" -> VRDispose(r)
    [] OTHER          -> r

\* animate(): one tick of the frame loop.  At or past the duration it calls
\* stop() and returns.  Otherwise it renders the frame (renderFrame throws
\* on the null 2d context left by dispose(), which ends the callback), calls
\* onProgress, and requests the next animation frame.
Animate(r, cb) ==
  LET elapsedTime == r.clock - r.startTime
  IN  IF elapsedTime >= r.duration
        THEN VRStop(r)
        ELSE IF ~r.canvas
          THEN r
          ELSE LET r1 == [r EXCEPT !.frames = @ + 1, !.lastFrameAt = elapsedTime,
                                   !.frameAfterStop = @ \/ r.stopped]
                   r2 == OnProgress(r1, cb)
               IN  [r2 EXCEPT !.animationId = r2.nextRaf,
                              !.rafQueue = @ \cup {r2.nextRaf},
                              !.nextRaf = @ + 1]

\* render(duration): initialize() when there is no canvas, create and start
\* the recorder, take the start time, and run the first tick of the frame
\* loop synchronously.
VRRender(r, duration, cb) ==
  LET r0 == IF ~r.canvas THEN VRInitialize(r) ELSE r
      r1 == [r0 EXCEPT !.mediaRecorder = "recording",
                       !.stopEvent = FALSE,
                       !.isRecording = TRUE,
                       !.startTime = r0.clock,
                       !.duration = duration,
                       !.promise = "pending",
                       !.stopped = FALSE]
  IN  Animate(r1, cb)

\* mediaRecorder.onstop: build the blob, clear isRecording, onComplete(blob),
\* resolve(blob).
VROnStop(r) ==
  [r EXCEPT !.stopEvent = FALSE,
            !.isRecording = FALSE,
            !.resolves = @ + 1,
            !.promise = IF @ = "pending" THEN "resolved" ELSE @]

\* ----------------------------------------------------------------- actions
Initialize ==
  /\ vr.promise = "none"
  /\ vr' = [VRInitialize(vr) EXCEPT !.op = "initialize"]
  /\ UNCHANGED notVR

Render ==
  /\ vr.promise = "none"
  /\ \E d \in Durations, cb \in Callbacks :
       vr' = [VRRender(vr, d, cb) EXCEPT !.op = "render"]
  /\ UNCHANGED notVR

\* The browser runs a scheduled animation-frame callback.
RafFire ==
  /\ \E id \in vr.rafQueue, dt \in Dts, cb \in Callbacks :
       vr' = [Animate([vr EXCEPT !.rafQueue = @ \ {id}, !.clock = @ + dt], cb)
                EXCEPT !.op = "animate"]
  /\ UNCHANGED notVR

\* The browser delivers the recorder's stop event.
RecorderStopEvent ==
  /\ vr.stopEvent
  /\ vr' = [VROnStop(vr) EXCEPT !.op = "onstop"]
  /\ UNCHANGED notVR

Stop ==
  /\ vr' = [VRStop(vr) EXCEPT !.op = "stop"]
  /\ UNCHANGED notVR

Dispose ==
  /\ vr' = [VRDispose(vr) EXCEPT !.op = "dispose"]
  /\ UNCHANGED notVR

(***************************************************************************)
(* The page-side frame loop of the sample generator (generateVideo's       *)
(* page.evaluate body): the same capture driven by requestAnimationFrame   *)
(* timestamps, with no caller callback and no stop() of its own.           *)
(***************************************************************************)

\* The page script's variables before mediaRecorder.start(): startTime null
\* (0), nothing scheduled.  stopEvent and reading are the queued stop event
\* and the FileReader still loading the blob.
PGInit ==
  [ started     |-> FALSE,
    startTime   |-> 0,
    duration    |-> 0,
    recorder    |-> "inactive",
    rafPending  |-> FALSE,
    stopEvent   |-> FALSE,
    reading     |-> FALSE,
    timestamp   |-> 0,
    frames      |-> 0,
    lastFrameAt |-> -1,
    resolves    |-> 0,
    promise     |-> "none" ]

\* mediaRecorder.start(100); animationId = requestAnimationFrame(drawFrame).
PGStart(p, duration) ==
  [p EXCEPT !.started = TRUE, !.duration = duration, !.recorder = "recording",
            !.rafPending = TRUE, !.promise = "pending"]

\* drawFrame(timestamp): the first timestamp becomes the start time; at or
\* past the duration the recorder is stopped, otherwise the frame is drawn
\* and the next animation frame requested.
DrawFrame(p, timestamp) ==
  LET p1 == IF p.startTime = 0 THEN [p EXCEPT !.startTime = timestamp] ELSE p
      elapsed == timestamp - p1.startTime
  IN  IF elapsed >= p1.duration
        THEN [p1 EXCEPT !.recorder = "inactive", !.stopEvent = TRUE]
        ELSE [p1 EXCEPT !.frames = @ + 1, !.lastFrameAt = elapsed,
                        !.rafPending = TRUE]

\* mediaRecorder.onstop: the blob is handed to a FileReader.
PGOnStop(p) == [p EXCEPT !.stopEvent = FALSE, !.reading = TRUE]

\* reader.onloadend: resolve({buffer, type}).
PGOnLoadEnd(p) ==
  [p EXCEPT !.reading = FALSE,
            !.resolves = @ + 1,
            !.promise = IF @ = "pending" THEN "resolved" ELSE @]

PageStart ==
  /\ ~pg.started
  /\ \E d \in Durations : pg' = PGStart(pg, d)
  /\ UNCHANGED notPG

PageRafFire ==
  /\ pg.rafPending
  /\ \E dt \in Dts :
       pg' = DrawFrame([pg EXCEPT !.rafPending = FALSE, !.timestamp = @ + dt],
                       pg.timestamp + dt)
  /\ UNCHANGED notPG

PageStopEvent ==
  /\ pg.stopEvent
  /\ pg' = PGOnStop(pg)
  /\ UNCHANGED notPG

PageLoadEnd ==
  /\ pg.reading
  /\ pg' = PGOnLoadEnd(pg)
  /\ UNCHANGED notPG

VRNext ==
  \/ Initialize \/ Render \/ RafFire \/ RecorderStopEvent \/ Stop \/ Dispose

PGNext == PageStart \/ PageRafFire \/ PageStopEvent \/ PageLoadEnd

(***************************************************************************)
(* AudioMixer                                                              *)
(*                                                                         *)
(* Levels (gains, volumes) are in tenths: 10 is 1.0.  Time constants are   *)
(* in milliseconds.  Measured speech energy and the ducking threshold are  *)
(* in hundredths.                                                          *)
(***************************************************************************)

\* ------------------------------------------------------------------ bounds
\* Speech sources whose ended event is still to be delivered, at most.
MaxSources == 2
\* Audio data offered to the decoder: 0 is malformed, n > 0 decodes to a
\* buffer of duration n.
MaxAudio == 2
\* Measured speech energy offered to a ducking tick: 0..MaxEnergy.
MaxEnergy == 2
\* play() calls waiting for ctx.resume(), fadeOut() calls waiting for their
\* timer, at most.
MaxPending == 1

\* The longest mix asked of export().
MaxExport == 3

AudioData == 0..MaxAudio
Energies == 0..MaxEnergy

\* The clips offered where only their presence matters: malformed data and
\* a one-second clip.
DefaultAudio == {0, 1}

\* An AudioParam with no setTargetAtTime automation in force.
NoTarget == -1

\* No AudioBuffer (a null trackBuffer / ttsBuffer).
NullBuffer == [data |-> 0, duration |-> 0]

\* ctx.decodeAudioData: malformed data is rejected, well-formed data gives a
\* buffer whose duration the data determines.
DecodeOk(data) == data # 0

Decode(data) == [data |-> data, duration |-> data]

\* The number NaN, which no comparison orders and Math.min and Math.max
\* hand on.
NaN == -1000000000

MathMin(a, b) == IF a = NaN \/ b = NaN THEN NaN ELSE IF a < b THEN a ELSE b

MathMax(a, b) == IF a = NaN \/ b = NaN THEN NaN ELSE IF a > b THEN a ELSE b

\* Math.max(0, Math.min(1, x)), in tenths.
Clamp01NoClamp(x) == x

Clamp01(x) == MathMax(0, MathMin(10, x))

\* A GainNode's gain as createGain() leaves it: value 1, no automation.
NewGain == [value |-> 10, target |-> NoTarget, tc |-> 0]

\* gain.setValueAtTime(v, ctx.currentTime): the value is v from now on; an
\* approach begun earlier ends at this event.
SetValueAtTime(g, v) == [value |-> v, target |-> NoTarget, tc |-> 0]

\* gain.setTargetAtTime(t, ctx.currentTime, tc): from the current value the
\* gain approaches t exponentially with time constant tc.
SetTargetAtTime(g, t, tc) == [g EXCEPT !.target = t, !.tc = tc]

\* gain.cancelScheduledValues(ctx.currentTime): removes the events scheduled
\* at or after now; an approach begun earlier stays in force.
CancelScheduledValues(g) == g

\* The values an approaching gain takes next: the target itself, or the
\* level next to the target on the side the gain comes from, which stands for
\* every value strictly between.
Toward(g) ==
  LET near == IF g.value > g.target THEN g.target + 1 ELSE g.target - 1
  IN  {g.target} \cup (IF g.value = near \/ (g.value - near) * (near - g.target) > 0
                         THEN {near} ELSE {})

Approaching(g) == g.target # NoTarget /\ g.value # g.target

\* constructor.  started, plays and fades are the browser's side: the speech
\* sources whose ended event is still to come, the play() calls suspended at
\* `await this.ctx.resume()` (each with the enableDucking it computed), the
\* fadeOut() calls suspended at their timer.  op, result and jumps describe
\* the last call, timer or event: which it was, whether it threw, the live
\* gains whose value it changed instantaneously; offline is what it scheduled
\* on an offline graph.
AMInit(ctxState) ==
  [ ctxState         |-> ctxState,
    currentTrack     |-> Null,
    trackBuffer      |-> NullBuffer,
    trackSource      |-> 0,
    ttsBuffer        |-> NullBuffer,
    ttsSource        |-> 0,
    trackGain        |-> NewGain,
    ttsGain          |-> NewGain,
    masterGain       |-> NewGain,
    musicVolume      |-> 2,
    musicVolumeIdle  |-> 7,
    ttsVolume        |-> 10,
    duckingAttack    |-> 50,
    duckingRelease   |-> 300,
    duckingThreshold |-> 1,
    isPlaying        |-> FALSE,
    isLooping        |-> TRUE,
    trackDuration    |-> 0,
    duckingInterval  |-> FALSE,
    loopTimers       |-> 0,
    offlineCtx       |-> FALSE,
    started          |-> 0,
    plays            |-> <<>>,
    fades            |-> 0,
    op               |-> "new",
    result           |-> "ok",
    jumps            |-> {},
    offline          |-> [duration |-> 0, track |-> <<>>, tts |-> <<>>] ]

\* The fields of the mixer object itself.
MixerFields ==
  { "ctxState", "currentTrack", "trackBuffer", "trackSource", "ttsBuffer",
    "ttsSource", "trackGain", "ttsGain", "masterGain", "musicVolume",
    "musicVolumeIdle", "ttsVolume", "duckingAttack", "duckingRelease",
    "duckingThreshold", "isPlaying", "isLooping", "trackDuration",
    "duckingInterval", "offlineCtx" }

Mixer(m) == [f \in MixerFields |-> m[f]]

\* this.<g>.gain.setValueAtTime(v, now) on a live gain node.
SetValue(m, g, v) ==
  [m EXCEPT ![g] = SetValueAtTime(m[g], v),
            !.jumps = IF m[g].value # v THEN @ \cup {g} ELSE @]

\* cancelScheduledValues(now) then setTargetAtTime(t, now, tc) on a live gain.
SetTarget(m, g, t, tc) ==
  [m EXCEPT ![g] = SetTargetAtTime(CancelScheduledValues(m[g]), t, tc)]

\* loadTrack / loadTrackFromBuffer once fetch and decode have settled: the
\* three fields are assigned together after the decode, or nothing is.
AMLoadTrackNameFirst(m, name, fetched, data) ==
  IF ~fetched
    THEN [m EXCEPT !.result = "error"]
    ELSE IF DecodeOk(data)
      THEN [m EXCEPT !.trackBuffer = Decode(data),
                     !.trackDuration = Decode(data).duration,
                     !.currentTrack = name]
      ELSE [m EXCEPT !.currentTrack = name, !.result = "error"]

AMLoadTrack(m, name, fetched, data) ==
  IF ~fetched \/ ~DecodeOk(data)
    THEN [m EXCEPT !.result = "error"]
    ELSE [m EXCEPT !.trackBuffer = Decode(data),
                   !.trackDuration = Decode(data).duration,
                   !.currentTrack = name]

\* setTTSAudio / setTTSAudioFromBuffer once the decode has settled.
AMSetTTS(m, data) ==
  IF ~DecodeOk(data)
    THEN [m EXCEPT !.result = "error"]
    ELSE [m EXCEPT !.ttsBuffer = Decode(data)]

\* setVolumes(volumes): each key present is clamped and stored.
AMSetVolumes(m, volumes) ==
  LET has(k) == k \in DOMAIN volumes
  IN  [m EXCEPT
        !.musicVolume     = IF has("music") THEN Clamp01(volumes.music) ELSE @,
        !.musicVolumeIdle = IF has("musicIdle") THEN Clamp01(volumes.musicIdle) ELSE @,
        !.ttsVolume       = IF has("tts") THEN Clamp01(volumes.tts) ELSE @]

\* setDucking(params): each key present is stored, no lower than its
\* minimum: 0.01 s for the two time constants, 0 for the threshold.
AMSetDucking(m, params) ==
  LET has(k) == k \in DOMAIN params
  IN  [m EXCEPT
        !.duckingAttack    = IF has("attack") THEN MathMax(10, params.attack) ELSE @,
        !.duckingRelease   = IF has("release") THEN MathMax(10, params.release) ELSE @,
        !.duckingThreshold = IF has("threshold") THEN MathMax(0, params.threshold) ELSE @]

\* _stopDucking(): clear the interval if there is one.
AMStopDucking(m) == [m EXCEPT !.duckingInterval = FALSE]

\* stop(): isPlaying false, ducking stopped, both sources stopped and
\* dropped.  A stopped source still delivers its ended event.
AMStop(m) ==
  LET m1 == AMStopDucking([m EXCEPT !.isPlaying = FALSE])
      m2 == IF m1.trackSource # 0 THEN [m1 EXCEPT !.trackSource = 0] ELSE m1
  IN  IF m2.ttsSource # 0 THEN [m2 EXCEPT !.ttsSource = 0] ELSE m2

\* _startTrack(): playLoop() returns at once unless isPlaying; otherwise it
\* creates and starts the track source and, when looping, sets the timer of
\* the next loop.
AMStartTrack(m) ==
  IF ~m.isPlaying
    THEN m
    ELSE [m EXCEPT !.trackSource = 1,
                   !.loopTimers = IF m.isLooping THEN @ + 1 ELSE @]

\* _startTTS(): create the speech source, set the speech gain, start it.
AMStartTTS(m) ==
  SetValue([m EXCEPT !.ttsSource = 1, !.started = @ + 1],
           "ttsGain", m.ttsVolume)

\* _startDucking(): track gain set to the speech level, analysis interval
\* (re)started.
AMStartDucking(m) ==
  [SetValue(m, "trackGain", m.musicVolume) EXCEPT !.duckingInterval = TRUE]

\* play() from `this.stop()` on: what runs after the context is running.
AMPlayBody(m, enableDucking) ==
  LET m1 == AMStop(m)
      m2 == AMStartTrack(m1)
      m3 == IF m2.ttsBuffer # NullBuffer THEN AMStartTTS(m2) ELSE m2
      m4 == IF enableDucking
              THEN AMStartDucking(m3)
              ELSE SetValue(m3, "trackGain", m3.musicVolumeIdle)
  IN  [m4 EXCEPT !.isPlaying = TRUE]

\* play(options) with isLooping assigned before the track is looked at.
AMPlayLoopFirst(m, options) ==
  LET m0 == [m EXCEPT !.isLooping = options.loop]
  IN  IF m.trackBuffer = NullBuffer
        THEN [m0 EXCEPT !.result = "error"]
        ELSE LET enableDucking == options.ducking /\ m0.ttsBuffer # NullBuffer
             IN  IF m0.ctxState = "suspended"
                   THEN [m0 EXCEPT !.plays = Append(@, enableDucking),
                                   !.result = "pending"]
                   ELSE AMPlayBody(m0, enableDucking)

\* play(options) up to its first suspension: throws with no track; else
\* isLooping and enableDucking are computed (options.x is "x !== false"),
\* and the call either waits for ctx.resume() or runs on.
AMPlay(m, options) ==
  IF m.trackBuffer = NullBuffer
    THEN [m EXCEPT !.result = "error"]
    ELSE LET m0 == [m EXCEPT !.isLooping = options.loop]
             enableDucking == options.ducking /\ m0.ttsBuffer # NullBuffer
         IN  IF m0.ctxState = "suspended"
               THEN [m0 EXCEPT !.plays = Append(@, enableDucking),
                               !.result = "pending"]
               ELSE AMPlayBody(m0, enableDucking)

\* play() resumed after `await this.ctx.resume()`: resume() rejects on a
\* context closed meanwhile, else the context runs and play() goes on.
AMPlayResumed(m) ==
  LET m0 == [m EXCEPT !.plays = Tail(@)]
  IN  IF m0.ctxState = "closed"
        THEN [m0 EXCEPT !.result = "error"]
        ELSE AMPlayBody([m0 EXCEPT !.ctxState = "running"], Head(m.plays))

\* ttsSource.onended, with no call of _stopDucking().
AMTtsEndedKeepsDucking(m) ==
  SetTarget([m EXCEPT !.ttsSource = 0],
            "trackGain", m.musicVolumeIdle, m.duckingRelease)

\* ttsSource.onended: drop the source, stop ducking, release the track gain
\* toward the idle level.
AMTtsEnded(m) ==
  SetTarget(AMStopDucking([m EXCEPT !.ttsSource = 0]),
            "trackGain", m.musicVolumeIdle, m.duckingRelease)

\* One run of the ducking interval's callback, the analyser reporting
\* `average` (sum of the bins / bin count / 255).
AMDuckTick(m, average) ==
  IF m.ttsSource = 0
    THEN AMStopDucking(m)
    ELSE IF average > m.duckingThreshold
      THEN IF m.trackGain.value > m.musicVolume
             THEN SetTarget(m, "trackGain", m.musicVolume, m.duckingAttack)
             ELSE m
      ELSE IF m.trackGain.value < m.musicVolumeIdle
             THEN SetTarget(m, "trackGain", m.musicVolumeIdle, m.duckingRelease)
             ELSE m

\* setMasterVolume(volume).
AMSetMasterVolume(m, volume) ==
  [m EXCEPT !.masterGain = SetTargetAtTime(@, Clamp01(volume), 100)]

\* fadeOut(duration) up to its timer: master gain toward 0 with time
\* constant duration / 3.
AMFadeOut(m, duration) ==
  [SetTarget(m, "masterGain", 0, duration \div 3) EXCEPT !.fades = @ + 1]

\* fadeOut() after its timer: stop(), master gain set back to 1.
AMFadeOutDone(m) ==
  SetValue(AMStop([m EXCEPT !.fades = @ - 1]), "masterGain", 10)

\* The gains of the offline graph with the branch for no speech left out.
OfflineGainsNoIdle(m) ==
  [ trackGain  |-> << m.musicVolume >>,
    ttsGain    |-> << m.ttsVolume >>,
    masterGain |-> << 9 >>,
    events     |-> << >> ]

\* The gains export() gives the offline graph: per gain the values assigned
\* to gain.value, in order, and for the track gain the automation events
\* scheduled with a speech buffer (a two-point ducking envelope).
OfflineGains(m) ==
  LET hasTTS == m.ttsBuffer # NullBuffer
  IN  [ trackGain  |-> IF hasTTS THEN << m.musicVolume >>
                                 ELSE << m.musicVolume, m.musicVolumeIdle >>,
        ttsGain    |-> << m.ttsVolume >>,
        masterGain |-> << 9 >>,
        events     |-> IF hasTTS
                         THEN << [type |-> "setValue", value |-> m.musicVolumeIdle,
                                  time |-> 0, tc |-> 0],
                                 [type |-> "setTarget", value |-> m.musicVolume,
                                  time |-> 0, tc |-> 50],
                                 [type |-> "setTarget", value |-> m.musicVolumeIdle,
                                  time |-> m.ttsBuffer.duration, tc |-> m.duckingRelease] >>
                         ELSE <<>> ]

\* export() called with no options.
NoOptions == [k \in {} |-> 0]

\* const duration = options.duration || (ttsBuffer ? ttsBuffer.duration
\* : trackDuration): an absent or zero option gives the default.
TargetDuration(m, options) ==
  IF "duration" \in DOMAIN options /\ options.duration # 0
    THEN options.duration
    ELSE IF m.ttsBuffer # NullBuffer THEN m.ttsBuffer.duration ELSE m.trackDuration

\* The scheduling loop of export(): while (trackTime < duration) a copy of
\* the track starts at trackTime, and trackTime += trackDuration.
RECURSIVE TrackStarts(_, _, _)
TrackStarts(trackTime, duration, trackDuration) ==
  IF trackTime < duration
    THEN << trackTime >> \o TrackStarts(trackTime + trackDuration, duration, trackDuration)
    ELSE << >>

\* The sources export() starts, the first copy of the track left out.
OfflineScheduleSkipsFirst(m, options) ==
  LET duration == TargetDuration(m, options)
  IN  [ duration |-> duration,
        track    |-> TrackStarts(m.trackDuration, duration, m.trackDuration),
        tts      |-> IF m.ttsBuffer # NullBuffer THEN << 0 >> ELSE << >> ]

\* The sources export() starts on the offline graph: the start times of the
\* copies of the track, and of the speech.
OfflineSchedule(m, options) ==
  LET duration == TargetDuration(m, options)
  IN  [ duration |-> duration,
        track    |-> TrackStarts(0, duration, m.trackDuration),
        tts      |-> IF m.ttsBuffer # NullBuffer THEN << 0 >> ELSE << >> ]

\* export(options): throws with no track; else a new offline context is
\* stored in this.offlineCtx, its graph gets the gains of OfflineGains and
\* the sources of OfflineSchedule.  Rendering and encoding assign no field of
\* the mixer.
AMExport(m, options) ==
  IF m.trackBuffer = NullBuffer
    THEN [m EXCEPT !.result = "error"]
    ELSE [m EXCEPT !.offlineCtx = TRUE, !.offline = OfflineSchedule(m, options)]

\* destroy(): stop(), drop both buffers, close the context unless its state
\* is closed.
AMDestroy(m) ==
  LET m1 == AMStop(m)
  IN  [m1 EXCEPT !.trackBuffer = NullBuffer,
                 !.ttsBuffer = NullBuffer,
                 !.ctxState = "closed"]

\* ------------------------------------------------------------------ inputs
TrackNames == {"a.mp3", "b.mp3"}

\* setVolumes arguments: speech level above idle level with no tts key,
\* every key out of range.
VolumeArgs ==
  { [music |-> 8, musicIdle |-> 3],
    [music |-> -3, musicIdle |-> 12, tts |-> 14] }

\* Numbers a caller may pass for a level: below, in and above the range, and
\* NaN.
LevelNumbers == {-3, 5, 14, NaN}

\* Every setVolumes argument over LevelNumbers, with any of its keys absent.
AnyVolumeArgs ==
  UNION {[K -> LevelNumbers] : K \in SUBSET {"music", "musicIdle", "tts"}}

\* Numbers a caller may pass to setDucking (ms for the time constants,
\* hundredths for the threshold): negative, zero, above every minimum, NaN.
DuckingNumbers == {-5, 0, 400, NaN}

\* setDucking arguments: one key, or attack and release together.
DuckingArgs ==
  UNION {[K -> DuckingNumbers] :
           K \in {{"attack"}, {"release"}, {"threshold"}, {"attack", "release"}}}

\* export durations: 0 (which export takes for none given) and up.
ExportDurations == 0..MaxExport

\* setMasterVolume arguments: above the range.
MasterVolumes == {14}

\* play options, each field standing for "options.<field> !== false".
PlayOptions ==
  { [loop |-> TRUE, ducking |-> TRUE],
    [loop |-> FALSE, ducking |-> TRUE],
    [loop |-> TRUE, ducking |-> FALSE] }

\* fadeOut durations, in milliseconds.
FadeDurations == {1500}

\* ----------------------------------------------------------------- actions
\* Every step starts by clearing what described the step before it.
Begin(m, op) ==
  [m EXCEPT !.op = op, !.result = "ok", !.jumps = {},
            !.offline = [duration |-> 0, track |-> <<>>, tts |-> <<>>]]

\* A speech source can be created within the bound.
CanStartTTS(m) == m.ttsBuffer # NullBuffer => m.started < MaxSources

LoadTrack ==
  /\ \E name \in TrackNames, fetched \in BOOLEAN, data \in AudioData :
       am' = AMLoadTrack(Begin(am, "loadTrack"), name, fetched, data)
  /\ UNCHANGED notAM

LoadTrackFromBuffer ==
  /\ \E name \in TrackNames, data \in AudioData :
       am' = AMLoadTrack(Begin(am, "loadTrackFromBuffer"), name, TRUE, data)
  /\ UNCHANGED notAM

\* loadTrackFromBuffer(arrayBuffer), the name left to its default.
LoadDefaultTrack ==
  /\ \E data \in DefaultAudio :
       am' = AMLoadTrack(Begin(am, "loadTrackFromBuffer"), "buffer", TRUE, data)
  /\ UNCHANGED notAM

SetTTSAudio ==
  /\ \E data \in AudioData : am' = AMSetTTS(Begin(am, "setTTSAudio"), data)
  /\ UNCHANGED notAM

SetTTSAudioFromBuffer ==
  /\ \E data \in DefaultAudio :
       am' = AMSetTTS(Begin(am, "setTTSAudioFromBuffer"), data)
  /\ UNCHANGED notAM

SetVolumes ==
  /\ \E volumes \in VolumeArgs : am' = AMSetVolumes(Begin(am, "setVolumes"), volumes)
  /\ UNCHANGED notAM

\* setVolumes with any numbers.
SetAnyVolumes ==
  /\ \E volumes \in AnyVolumeArgs :
       am' = AMSetVolumes(Begin(am, "setVolumes"), volumes)
  /\ UNCHANGED notAM

SetDucking ==
  /\ \E params \in DuckingArgs : am' = AMSetDucking(Begin(am, "setDucking"), params)
  /\ UNCHANGED notAM

SetMasterVolume ==
  /\ \E volume \in MasterVolumes :
       am' = AMSetMasterVolume(Begin(am, "setMasterVolume"), volume)
  /\ UNCHANGED notAM

Play ==
  /\ IF am.ctxState = "suspended" THEN Len(am.plays) < MaxPending ELSE CanStartTTS(am)
  /\ \E options \in PlayOptions : am' = AMPlay(Begin(am, "play"), options)
  /\ UNCHANGED notAM

\* play({ ducking }) on a mixer whose context is not suspended.
PlayDucking ==
  /\ am.ctxState # "suspended"
  /\ CanStartTTS(am)
  /\ \E ducking \in BOOLEAN :
       am' = AMPlay(Begin(am, "play"), [loop |-> TRUE, ducking |-> ducking])
  /\ UNCHANGED notAM

\* ctx.resume() settles for the oldest waiting play().
PlayResumed ==
  /\ am.plays # <<>>
  /\ CanStartTTS(am)
  /\ am' = AMPlayResumed(Begin(am, "playResumed"))
  /\ UNCHANGED notAM

MixerStop ==
  /\ am' = AMStop(Begin(am, "stop"))
  /\ UNCHANGED notAM

\* pause(): the context is suspended if it was running.
Pause ==
  /\ am.ctxState = "running"
  /\ am' = [Begin(am, "pause") EXCEPT !.ctxState = "suspended"]
  /\ UNCHANGED notAM

\* resume(): the context runs again if it was suspended.
Resume ==
  /\ am.ctxState = "suspended"
  /\ am' = [Begin(am, "resume") EXCEPT !.ctxState = "running"]
  /\ UNCHANGED notAM

\* The browser delivers the ended event of the speech source playing.
TtsEnded ==
  /\ am.ttsSource # 0
  /\ am' = AMTtsEnded([Begin(am, "ttsEnded") EXCEPT !.started = @ - 1])
  /\ UNCHANGED notAM

\* The browser delivers the ended event of a speech source the mixer no
\* longer holds (stop() or a later play() dropped it): its handler is the
\* same closure over the mixer.
TtsEndedStale ==
  /\ am.started > am.ttsSource
  /\ am' = AMTtsEnded([Begin(am, "ttsEndedStale") EXCEPT !.started = @ - 1])
  /\ UNCHANGED notAM

\* The ducking interval fires, 50 ms after the tick before it: with the
\* context running an approaching track gain has moved meanwhile.
DuckTick ==
  /\ am.duckingInterval
  /\ \E average \in Energies :
     \E v \in IF am.ctxState = "running" /\ Approaching(am.trackGain)
                THEN Toward(am.trackGain) ELSE {am.trackGain.value} :
       LET op == IF am.ttsSource = 0 THEN "duckTickNoSource"
                 ELSE IF average > am.duckingThreshold THEN "duckTickVoice"
                 ELSE "duckTickQuiet"
       IN  am' = AMDuckTick([Begin(am, op) EXCEPT !.trackGain.value = v], average)
  /\ UNCHANGED notAM

\* Time passes on a running context: a gain under setTargetAtTime moves
\* toward its target.
GainApproach ==
  /\ am.ctxState = "running"
  /\ \E g \in {"trackGain", "masterGain"} :
       /\ Approaching(am[g])
       /\ \E v \in Toward(am[g]) \ {am[g].value} :
            am' = [am EXCEPT ![g].value = v]
  /\ UNCHANGED notAM

FadeOut ==
  /\ am.fades < MaxPending
  /\ \E duration \in FadeDurations : am' = AMFadeOut(Begin(am, "fadeOut"), duration)
  /\ UNCHANGED notAM

\* The timer of a waiting fadeOut() fires.
FadeOutDone ==
  /\ am.fades > 0
  /\ am' = AMFadeOutDone(Begin(am, "fadeOutDone"))
  /\ UNCHANGED notAM

Export ==
  /\ am' = AMExport(Begin(am, "export"), NoOptions)
  /\ UNCHANGED notAM

\* export({ duration }).
ExportFor ==
  /\ \E duration \in ExportDurations :
       am' = AMExport(Begin(am, "export"), [duration |-> duration])
  /\ UNCHANGED notAM

Destroy ==
  /\ am' = AMDestroy(Begin(am, "destroy"))
  /\ UNCHANGED notAM

(***************************************************************************)
(* The PCM encoders: AudioMixer._bufferToWav in the browser and writeWav   *)
(* on the server.  A sample is the number n / SampleDen; a container is    *)
(* the sequence of its bytes, byte k of the container being bytes[k + 1].  *)
(***************************************************************************)

\* ------------------------------------------------------------------ bounds
\* Frames of the buffers encoded whole, at most.
MaxFrames == 2
\* Single samples encoded: every n / SampleDen with |n| <= MaxSample.
MaxSample == 1200

\* The denominator of a sample.
SampleDen == 1000

\* string.charCodeAt(i)
CharCode(c) ==
  CASE c = "R" -> 82 [] c = "I" -> 73 [] c = "F" -> 70 [] c = "W" -> 87
    [] c = "A" -> 65 [] c = "V" -> 86 [] c = "E" -> 69 [] c = "f" -> 102
    [] c = "m" -> 109 [] c = "t" -> 116 [] c = " " -> 32 [] c = "d" -> 100
    [] c = "a" -> 97

\* _writeString(view, offset, string) / buffer.write(string, offset)
WriteString(chars) == [i \in 1..Len(chars) |-> CharCode(chars[i])]

\* view.setUint32(offset, v, true) / buffer.writeUInt32LE(v, offset)
U32LE(v) ==
  << v % 256, (v \div 256) % 256, (v \div 65536) % 256, (v \div 16777216) % 256 >>

\* view.setUint16(offset, v, true) / buffer.writeUInt16LE(v, offset)
U16LE(v) == << v % 256, (v \div 256) % 256 >>

\* view.setInt16(offset, v, true) for an integer v: v modulo 2^16, in two's
\* complement (a value out of range wraps).
I16LE(v) == LET u == v % 65536 IN << u % 256, u \div 256 >>

\* a / b for b > 0, truncated toward zero and rounded down.
TruncDiv(a, b) == IF a >= 0 THEN a \div b ELSE -((-a) \div b)

FloorDiv(a, b) == a \div b

\* _bufferToWav's sample with no Math.max(-1, Math.min(1, x)).
BrowserInt16NoClamp(n) ==
  IF n = NaN THEN 0
  ELSE IF n < 0 THEN TruncDiv(n * 32768, SampleDen)
  ELSE TruncDiv(n * 32767, SampleDen)

\* _bufferToWav: sample = Math.max(-1, Math.min(1, x)); intSample = sample <
\* 0 ? sample * 0x8000 : sample * 0x7FFF; setInt16 truncates it (NaN to 0).
BrowserInt16(n) ==
  LET sample == MathMax(-SampleDen, MathMin(SampleDen, n))
  IN  IF sample = NaN THEN 0
      ELSE IF sample < 0 THEN TruncDiv(sample * 32768, SampleDen)
      ELSE TruncDiv(sample * 32767, SampleDen)

\* writeWav: Math.max(-32768, Math.min(32767, Math.floor(x * 32767)));
\* writeInt16LE stores a NaN as 0.
ServerInt16(n) ==
  IF n = NaN THEN 0
  ELSE MathMax(-32768, MathMin(32767, FloorDiv(n * 32767, SampleDen)))

\* Flattening of a sequence of byte sequences.
RECURSIVE Concat(_)
Concat(parts) == IF parts = << >> THEN << >> ELSE Head(parts) \o Concat(Tail(parts))

\* The 44-byte header both encoders write, from the fields they compute.
WavHeader(dataLength, format, numChannels, sampleRate, blockAlign, bitDepth) ==
  Concat(<< WriteString(<< "R", "I", "F", "F" >>),
            U32LE(36 + dataLength),
            WriteString(<< "W", "A", "V", "E" >>),
            WriteString(<< "f", "m", "t", " " >>),
            U32LE(16),
            U16LE(format),
            U16LE(numChannels),
            U32LE(sampleRate),
            U32LE(sampleRate * blockAlign),
            U16LE(blockAlign),
            U16LE(bitDepth),
            WriteString(<< "d", "a", "t", "a" >>),
            U32LE(dataLength) >>)

\* _bufferToWav writing channel after channel instead of frame after frame.
BufferToWavPlanar(left, right, sampleRate) ==
  WavHeader(Len(left) * 4, 1, 2, sampleRate, 4, 16)
    \o Concat([i \in 1..Len(left) |-> I16LE(BrowserInt16(left[i]))])
    \o Concat([i \in 1..Len(right) |-> I16LE(BrowserInt16(right[i]))])

\* _bufferToWav(buffer) for a buffer of two channels.
BufferToWav(left, right, sampleRate) ==
  LET numChannels == 2
      bitDepth == 16
      bytesPerSample == bitDepth \div 8
      blockAlign == numChannels * bytesPerSample
      dataLength == Len(left) * blockAlign
  IN  WavHeader(dataLength, 1, numChannels, sampleRate, blockAlign, bitDepth)
        \o Concat([i \in 1..Len(left) |->
                     I16LE(BrowserInt16(left[i])) \o I16LE(BrowserInt16(right[i]))])

\* writeWav(leftChannel, rightChannel, sampleRate)
WriteWav(left, right, sampleRate) ==
  LET length == Len(left)
  IN  WavHeader(length * 4, 1, 2, sampleRate, 4, 16)
        \o Concat([i \in 1..length |->
                     I16LE(ServerInt16(left[i])) \o I16LE(ServerInt16(right[i]))])

\* No buffer encoded.
WavNone ==
  [ left |-> << >>, right |-> << >>, sampleRate |-> 44100, bytes |-> << >>,
    op |-> "new" ]

\* ------------------------------------------------------------------ inputs
WavSamples == {-SampleDen, -1, 500, SampleDen}

SampleRates == {44100, 48000}

\* Stereo buffers of up to MaxFrames frames.
WavBuffers ==
  UNION {[left : [1..n -> WavSamples], right : [1..n -> WavSamples]] : n \in 0..MaxFrames}

\* Single samples: in and out of [-1, 1], and NaN.
QuantSamples == (-MaxSample..MaxSample) \cup {NaN}

\* ----------------------------------------------------------------- actions
EncodeBrowser ==
  /\ wav' = [wav EXCEPT !.bytes = BufferToWav(wav.left, wav.right, wav.sampleRate),
                        !.op = "bufferToWav"]
  /\ UNCHANGED notWAV

EncodeServer ==
  /\ wav' = [wav EXCEPT !.bytes = WriteWav(wav.left, wav.right, wav.sampleRate),
                        !.op = "writeWav"]
  /\ UNCHANGED notWAV

(***************************************************************************)
(* KiarosXAvatar.  Rotation speeds are in thousandths, particle speeds in  *)
(* tenths, times in ms; the pulse phase is in units of 2 pi / 12600 (a     *)
(* whole number of units per ms for each of the three pulse durations),    *)
(* the rotation angle in units of 0.00006 rad, opacities in 1/10000.       *)
(***************************************************************************)

\* ------------------------------------------------------------------ bounds
\* Frames rendered, at most.
MaxTicks == 3
\* Sound waves alive when another may still be spawned, at most.
MaxWaves == 1

\* this.states
AvStates ==
  [ idle      |-> [ rotationSpeed |-> 5, pulseDuration |-> 4200, particleCount |-> 12,
                    particleSpeed |-> 3, glowIntensity |-> 4, latticeBrightness |-> 6,
                    energySpikes |-> FALSE ],
    talking   |-> [ rotationSpeed |-> 15, pulseDuration |-> 1800, particleCount |-> 20,
                    particleSpeed |-> 8, glowIntensity |-> 8, latticeBrightness |-> 10,
                    energySpikes |-> FALSE ],
    executing |-> [ rotationSpeed |-> 35, pulseDuration |-> 900, particleCount |-> 35,
                    particleSpeed |-> 15, glowIntensity |-> 10, latticeBrightness |-> 10,
                    energySpikes |-> TRUE ] ]

\* Names this.states inherits from Object.prototype.
PrototypeNames == {"constructor", "toString"}

\* What reading the configuration fields of an inherited value gives:
\* undefined, NaN in arithmetic, false in a condition.
AvInherited ==
  [ rotationSpeed |-> NaN, pulseDuration |-> NaN, particleCount |-> NaN,
    particleSpeed |-> NaN, glowIntensity |-> NaN, latticeBrightness |-> NaN,
    energySpikes |-> FALSE ]

AvUndefined == [ undefined |-> TRUE ]

\* this.states[state]
AvLookup(state) ==
  IF state \in DOMAIN AvStates THEN AvStates[state]
  ELSE IF state \in PrototypeNames THEN AvInherited
  ELSE AvUndefined

\* Arithmetic on numbers that may be NaN.
Plus(a, b) == IF a = NaN \/ b = NaN THEN NaN ELSE a + b

Times(a, b) == IF a = NaN \/ b = NaN THEN NaN ELSE a * b

\* (deltaTime / pulseDuration) * Math.PI * 2, in units of 2 pi / 12600.
PulseStep(deltaTime, pulseDuration) ==
  IF pulseDuration = NaN THEN NaN ELSE (deltaTime * 12600) \div pulseDuration

\* initParticles(): as many particles as the largest particleCount.
MaxParticles == 35

\* The avatar before the constructor's start().
AvNew ==
  [ currentState  |-> "idle",
    stateConfig   |-> AvStates.idle,
    pulsePhase    |-> 0,
    rotationAngle |-> 0,
    time          |-> 0,
    particles     |-> [i \in 1..MaxParticles |-> 0],
    soundWaves    |-> << >>,
    animationId   |-> FALSE,
    scheduled     |-> FALSE,
    ticks         |-> 0,
    faded         |-> 0,
    op            |-> "new",
    arg           |-> "",
    result        |-> "ok" ]

\* setState(state) that returns early when state is already current.
AvSetStateSkipsSame(a, state) ==
  IF AvLookup(state) = AvUndefined
    THEN [a EXCEPT !.result = "warn"]
    ELSE IF state = a.currentState THEN a
    ELSE [a EXCEPT !.currentState = state,
                   !.stateConfig = AvLookup(state),
                   !.pulsePhase = 0]

\* setState(state) that assigns currentState and leaves stateConfig alone.
AvSetStateKeepsConfig(a, state) ==
  IF AvLookup(state) = AvUndefined
    THEN [a EXCEPT !.result = "warn"]
    ELSE [a EXCEPT !.currentState = state, !.pulsePhase = 0]

\* setState(state)
AvSetState(a, state) ==
  IF AvLookup(state) = AvUndefined
    THEN [a EXCEPT !.result = "warn"]
    ELSE [a EXCEPT !.currentState = state,
                   !.stateConfig = AvLookup(state),
                   !.pulsePhase = 0]

\* The talking branch of update() that pushes a wave in any state.
SpawnWaveAnyState(a, spawn) ==
  IF spawn
    THEN Append(a.soundWaves, [opacity |-> 10000, isSpike |-> FALSE])
    ELSE a.soundWaves

\* update(), the talking branch: spawn is the outcome of Math.random() < 0.05.
SpawnWave(a, spawn) ==
  IF a.currentState = "talking" /\ spawn
    THEN Append(a.soundWaves, [opacity |-> 10000, isSpike |-> FALSE])
    ELSE a.soundWaves

\* A filter callback that leaves the opacity as it is.
FadeNothing(waves, deltaTime) == waves

\* wave.opacity -= 0.02 * (deltaTime * 0.06), in 1/10000.
Fade(waves, deltaTime) ==
  [i \in 1..Len(waves) |-> [waves[i] EXCEPT !.opacity = @ - 12 * deltaTime]]

\* A filter callback that returns true for every wave.
LiveKeepsAll(waves) == waves

\* filter(...): return wave.opacity > 0
Live(waves) == SelectSeq(waves, LAMBDA wave : wave.opacity > 0)

\* update(), the spike branch: spike is the outcome of Math.random() < 0.1.
SpawnSpike(cfg, waves, spike) ==
  IF cfg.energySpikes /\ spike
    THEN Append(waves, [opacity |-> 8000, isSpike |-> TRUE])
    ELSE waves

\* update(deltaTime).  A particle's angle counts the particle speeds added
\* to it, a wave has its opacity and whether it is a spike; faded counts the
\* waves the filter dropped.
AvUpdate(a, deltaTime, spawn, spike) ==
  LET cfg == a.stateConfig
      activeParticles == IF cfg.particleCount = NaN THEN 0 ELSE cfg.particleCount
      w1 == Fade(SpawnWave(a, spawn), deltaTime)
      w2 == Live(w1)
      w3 == SpawnSpike(cfg, w2, spike)
  IN  [a EXCEPT
        !.time = @ + deltaTime,
        !.rotationAngle = Plus(@, Times(cfg.rotationSpeed, deltaTime)),
        !.pulsePhase = Plus(@, PulseStep(deltaTime, cfg.pulseDuration)),
        !.particles = [i \in 1..MaxParticles |->
                         IF i <= activeParticles
                           THEN Plus(a.particles[i], cfg.particleSpeed)
                           ELSE a.particles[i]],
        !.soundWaves = w3,
        !.faded = Len(w1) - Len(w2)]

\* render(): update, draw, schedule the next frame.  drawGlow() throws at
\* createRadialGradient when the pulse phase is NaN, and then no frame is
\* scheduled.
AvRender(a, deltaTime, spawn, spike) ==
  LET a1 == [AvUpdate(a, deltaTime, spawn, spike) EXCEPT !.ticks = @ + 1]
  IN  IF a1.pulsePhase = NaN
        THEN [a1 EXCEPT !.scheduled = FALSE, !.result = "error"]
        ELSE [a1 EXCEPT !.scheduled = TRUE, !.animationId = TRUE]

\* start(): unless animationId is set, a frame is rendered at once
\* (lastTime = now, so its deltaTime is 0).
AvStart(a, spawn, spike) ==
  IF a.animationId THEN a ELSE AvRender(a, 0, spawn, spike)

\* stop()
AvStop(a) ==
  IF a.animationId THEN [a EXCEPT !.animationId = FALSE, !.scheduled = FALSE] ELSE a

\* constructor: ends with start().
AvInit == AvStart(AvNew, FALSE, FALSE)

\* getState()
GetState(a) == a.currentState

\* ------------------------------------------------------------------ inputs
\* State names a caller may pass.
AvNames == {"idle", "talking", "executing", "dancing", "", "constructor", "toString"}

\* Time between two frames, ms.
AvDts == {400, 1000}

\* ----------------------------------------------------------------- actions
AvBegin(a, op, arg) ==
  [a EXCEPT !.op = op, !.arg = arg, !.result = "ok", !.faded = 0]

\* Math.random() < 0.05 may hold while the waves are within their bound.
Spawns(a) == IF Len(a.soundWaves) < MaxWaves THEN BOOLEAN ELSE {FALSE}

AvatarSetState ==
  /\ \E state \in AvNames : av' = AvSetState(AvBegin(av, "setState", state), state)
  /\ UNCHANGED notAV

\* The animation-frame callback runs.
AvatarFrame ==
  /\ av.scheduled
  /\ av.ticks < MaxTicks
  /\ \E deltaTime \in AvDts, spawn \in Spawns(av), spike \in Spawns(av) :
       av' = AvRender(AvBegin(av, "render", ""), deltaTime, spawn, spike)
  /\ UNCHANGED notAV

AvatarStart ==
  /\ av.ticks < MaxTicks
  /\ \E spawn \in Spawns(av), spike \in Spawns(av) :
       av' = AvStart(AvBegin(av, "start", ""), spawn, spike)
  /\ UNCHANGED notAV

AvatarStop ==
  /\ av' = AvStop(AvBegin(av, "stop", ""))
  /\ UNCHANGED notAV

\* b with the clocks of a: time, the angles and the frame count grow
\* without bound and the waves never read them.  A clock that has become NaN
\* stays NaN.
SameClocks(a, b) ==
  [b EXCEPT !.time = a.time,
            !.ticks = a.ticks,
            !.rotationAngle = IF @ = NaN THEN NaN ELSE a.rotationAngle,
            !.pulsePhase = IF @ = NaN THEN NaN ELSE a.pulsePhase,
            !.particles = [i \in 1..MaxParticles |->
                             IF @[i] = NaN THEN NaN ELSE a.particles[i]]]

\* The animation-frame callback runs, any number of times: the frame as
\* far as the waves are concerned.
AvatarTick ==
  /\ av.scheduled
  /\ \E deltaTime \in AvDts, spawn \in Spawns(av), spike \in Spawns(av) :
       av' = SameClocks(av, AvRender(AvBegin(av, "render", ""), deltaTime, spawn, spike))
  /\ UNCHANGED notAV

\* start(), any number of times.
AvatarRestart ==
  /\ \E spawn \in Spawns(av), spike \in Spawns(av) :
       av' = SameClocks(av, AvStart(AvBegin(av, "start", ""), spawn, spike))
  /\ UNCHANGED notAV

(***************************************************************************)
(* The typewriter caption of the three compositors: VideoRenderer          *)
(* .drawCaption (live), drawCaption of the sample generator's page, and    *)
(* drawCaption of the batch generator.  A caption is its number of words   *)
(* (caption.split(' ').length), times are ms, the batch generator's time   *)
(* is the frame number and its duration the number of frames.  Quotients   *)
(* are exact.                                                              *)
(***************************************************************************)

\* ------------------------------------------------------------------ bounds
\* Words of a caption, at most.
MaxWords == 5
\* Render durations offered, in steps of 50 ms.
MaxCapDuration == 3
\* Seconds of a batch video, at most.
MaxSeconds == 1

\* const fps = 30
Fps == 30

\* options.textSpeed || 50
DefaultTextSpeed == 50

Min(a, b) == IF a <= b THEN a ELSE b

\* words.slice(0, n) that is not cut off at the end of the array.
SliceUncapped(words, n) == n

\* words.slice(0, n).length, n >= 0
Slice(words, n) == Min(n, words)

\* constructor: this.textSpeed = options.textSpeed || 50; 0 stands for an
\* absent (or zero) option.
TextSpeed(option) == IF option = 0 THEN DefaultTextSpeed ELSE option

\* VideoRenderer.drawCaption(elapsedTime): words visible.
VisibleRenderer(words, elapsedTime, textSpeed) ==
  Slice(words, elapsedTime \div textSpeed)

\* drawCaption(elapsed) of the page: textSpeed = duration / words.length,
\* wordsToShow = Math.floor(elapsed / textSpeed) + 3.
VisiblePage(words, elapsed, duration) ==
  Slice(words, ((elapsed * words) \div duration) + 3)

\* drawCaption(ctx, caption, frameNum, totalFrames, ...) of the batch
\* generator: Math.min(Math.floor(frameNum * wordsPerFrame) + 3, words.length).
VisibleBatch(words, frameNum, totalFrames) ==
  Slice(words, Min(((frameNum * words) \div totalFrames) + 3, words))

CapNone ==
  [ impl |-> "none", words |-> 0, duration |-> 0, textSpeed |-> 0,
    elapsed |-> 0, visible |-> 0 ]

Visible(c, elapsed) ==
  CASE c.impl = "renderer" -> VisibleRenderer(c.words, elapsed, c.textSpeed)
    [] c.impl = "page"     -> VisiblePage(c.words, elapsed, c.duration)
    [] c.impl = "batch"    -> VisibleBatch(c.words, elapsed, c.duration)
    [] OTHER               -> 0

\* ------------------------------------------------------------------ inputs
CapWords == 1..MaxWords

\* Render durations, ms.
CapDurations == {50 * d : d \in 1..MaxCapDuration}

\* options.textSpeed: absent, or 100 ms per word.
TextSpeedOptions == {0, 100}

\* Time between two frames drawn, ms.
CapDts == {25, 50, 100}

\* Frames of a batch video: duration * fps.
BatchFrames == {seconds * Fps : seconds \in 1..MaxSeconds}

\* ----------------------------------------------------------------- actions
\* renderFrame(elapsedTime) of the live renderer, for a later elapsed time.
CaptionRenderer ==
  /\ cap.impl = "renderer"
  /\ \E dt \in CapDts :
       /\ cap.elapsed + dt <= cap.duration + 100
       /\ cap' = [cap EXCEPT !.elapsed = @ + dt,
                             !.visible = Visible(cap, cap.elapsed + dt)]
  /\ UNCHANGED notCAP

\* drawFrame(timestamp) of the page, for a later timestamp.
CaptionPage ==
  /\ cap.impl = "page"
  /\ \E dt \in CapDts :
       /\ cap.elapsed + dt <= cap.duration + 100
       /\ cap' = [cap EXCEPT !.elapsed = @ + dt,
                             !.visible = Visible(cap, cap.elapsed + dt)]
  /\ UNCHANGED notCAP

\* The next frame of the batch generator's loop.
CaptionBatch ==
  /\ cap.impl = "batch"
  /\ cap.elapsed + 1 < cap.duration
  /\ cap' = [cap EXCEPT !.elapsed = @ + 1,
                        !.visible = Visible(cap, cap.elapsed + 1)]
  /\ UNCHANGED notCAP

(***************************************************************************)
(* generateVideo of the batch generator (generate-samples-final.js): the   *)
(* frame loop, the encoding and the returned metadata.  The loop body up   *)
(* to the await of fs.writeFile is one step.  log is the drawing of the    *)
(* current call, one entry per layer: the frame, the layer, what the layer *)
(* is drawn from (the frame number for the background's progress and the   *)
(* avatar, the visible words for the caption) and the lineJoin of the      *)
(* context when a stroked layer is drawn.  first is the log of the first   *)
(* call once a second call of the same configuration has begun.            *)
(***************************************************************************)

\* background.type of the sample videos
BackgroundTypes == {"gradient", "dark-pattern", "tech-grid"}

\* Caption lengths of the batch videos.
BatchWords == {2, MaxWords}

BtNone ==
  [ background |-> "none", words |-> 0, duration |-> 0,
    calls |-> 0, pc |-> "idle", frameNum |-> 0, totalFrames |-> 0,
    ctx |-> [lineJoin |-> "miter"],
    log |-> << >>, first |-> << >>, saved |-> << >>,
    returned |-> [duration |-> 0, fps |-> 0] ]

\* A canvas created once and kept for every call.
CreateCanvasOnce(b) == b.ctx

\* createCanvas(width, height).getContext('2d'): a fresh context.
CreateCanvas(b) == [lineJoin |-> "miter"]

\* A loop that runs while frameNum <= totalFrames.
LoopContinuesInclusive(frameNum, totalFrames) == frameNum <= totalFrames

\* for (...; frameNum < totalFrames; ...)
LoopContinues(frameNum, totalFrames) == frameNum < totalFrames

\* A loop body that draws the avatar before the caption.
LayersAvatarFirst == << "clear", "background", "avatar", "caption" >>

\* The loop body's calls, in its order.
Layers == << "clear", "background", "caption", "avatar" >>

\* One layer drawn on the context c: the log entry and the context after.
\* drawBackground strokes (except for a gradient) with the lineJoin it
\* finds; drawCaption sets lineJoin = 'round' and strokes.
DrawLayer(b, c, layer) ==
  CASE layer = "clear" ->
         [ entry |-> [frame |-> b.frameNum, layer |-> layer, from |-> 0,
                      lineJoin |-> "unused"],
           ctx   |-> c ]
    [] layer = "background" ->
         [ entry |-> [frame |-> b.frameNum, layer |-> layer, from |-> b.frameNum,
                      lineJoin |-> IF b.background = "gradient"
                                     THEN "unused" ELSE c.lineJoin],
           ctx   |-> c ]
    [] layer = "caption" ->
         [ entry |-> [frame |-> b.frameNum, layer |-> layer,
                      from |-> VisibleBatch(b.words, b.frameNum, b.totalFrames),
                      lineJoin |-> "round"],
           ctx   |-> [c EXCEPT !.lineJoin = "round"] ]
    [] OTHER ->
         [ entry |-> [frame |-> b.frameNum, layer |-> layer, from |-> b.frameNum,
                      lineJoin |-> "unused"],
           ctx   |-> c ]

RECURSIVE DrawLayers(_, _)
\* The layers from the i-th on, drawn in order.
DrawLayers(b, i) ==
  IF i > Len(Layers) THEN b
  ELSE LET drawn == DrawLayer(b, b.ctx, Layers[i])
       IN  DrawLayers([b EXCEPT !.log = Append(@, drawn.entry),
                                !.ctx = drawn.ctx], i + 1)

\* generateVideo(videoConfig) up to the loop.
BTGenerate(b, background, words, duration) ==
  [b EXCEPT !.background = background, !.words = words, !.duration = duration,
            !.calls = @ + 1,
            !.totalFrames = duration * Fps,
            !.frameNum = 0,
            !.ctx = CreateCanvas(b),
            !.first = b.log,
            !.log = << >>,
            !.saved = << >>,
            !.returned = [duration |-> 0, fps |-> 0],
            !.pc = "loop"]

\* The loop test, and the body up to await fs.writeFile(...).
BTFrame(b) ==
  IF LoopContinues(b.frameNum, b.totalFrames)
    THEN [DrawLayers(b, 1) EXCEPT !.pc = "write"]
    ELSE [b EXCEPT !.pc = "encode"]

\* fs.writeFile resolves: frame_<frameNum>.jpg is written; frameNum++.
BTWritten(b) ==
  [b EXCEPT !.saved = Append(@, b.frameNum), !.frameNum = @ + 1, !.pc = "loop"]

\* ffmpeg exits with code 0; the metadata is returned.
BTEncoded(b) ==
  [b EXCEPT !.returned = [duration |-> b.duration, fps |-> Fps], !.pc = "done"]

\* ----------------------------------------------------------------- actions
\* generateVideo is called with a sample configuration.
BatchGenerate ==
  /\ bt.pc = "idle"
  /\ \E background \in BackgroundTypes, words \in BatchWords,
        duration \in 1..MaxSeconds :
       bt' = BTGenerate(bt, background, words, duration)
  /\ UNCHANGED notBT

\* generateVideo is called again with the configuration of the call before.
BatchGenerateAgain ==
  /\ bt.pc = "done"
  /\ bt.calls = 1
  /\ bt' = BTGenerate(bt, bt.background, bt.words, bt.duration)
  /\ UNCHANGED notBT

BatchFrame ==
  /\ bt.pc = "loop"
  /\ bt' = BTFrame(bt)
  /\ UNCHANGED notBT

BatchFrameWritten ==
  /\ bt.pc = "write"
  /\ bt' = BTWritten(bt)
  /\ UNCHANGED notBT

BatchEncoded ==
  /\ bt.pc = "encode"
  /\ bt' = BTEncoded(bt)
  /\ UNCHANGED notBT

(***************************************************************************)
(* applyEnvelope of the server's music synthesis (content-generator.js).   *)
(* Times are in 1/10000 s; a buffer is its length.                         *)
(***************************************************************************)

\* ------------------------------------------------------------------ bounds
\* Attack, decay and release times, at most, in 1/10000 s.
MaxEnvTime == 3
\* Buffer lengths, at most, in samples.
MaxEnvLength == 16

\* const SAMPLE_RATE = 44100
SAMPLE_RATE == 44100

\* 1/10000 s
EnvTimeDen == 10000

\* Math.floor(t * SAMPLE_RATE)
EnvSamples(t) == (t * SAMPLE_RATE) \div EnvTimeDen

EnvNone ==
  [ length |-> 0, attack |-> 0, decay |-> 0, release |-> 0,
    attackSamples |-> 0, decaySamples |-> 0, releaseSamples |-> 0,
    sustainSamples |-> 0, stages |-> << >>, resultLength |-> -1, op |-> "new" ]

\* A sustain length rounded on its own from the time the stages leave.
SustainSamplesRounded(length, attack, decay, release) ==
  EnvSamples(((length * EnvTimeDen) \div SAMPLE_RATE) - attack - decay - release)

\* buffer.length - attackSamples - decaySamples - releaseSamples
SustainSamples(length, attack, decay, release) ==
  length - EnvSamples(attack) - EnvSamples(decay) - EnvSamples(release)

\* The branch of the loop body that sample i takes.
EnvStage(e, i) ==
  IF i < e.attackSamples THEN "attack"
  ELSE IF i < e.attackSamples + e.decaySamples THEN "decay"
  ELSE IF i < e.attackSamples + e.decaySamples + e.sustainSamples THEN "sustain"
  ELSE "release"

\* applyEnvelope(buffer, attack, decay, sustain, release, duration): the
\* stage lengths it computes, the branch each sample takes, and the length
\* of the result.
ApplyEnvelope(e, length, attack, decay, release) ==
  LET e1 == [e EXCEPT !.length = length, !.attack = attack, !.decay = decay,
                      !.release = release,
                      !.attackSamples = EnvSamples(attack),
                      !.decaySamples = EnvSamples(decay),
                      !.releaseSamples = EnvSamples(release),
                      !.sustainSamples = SustainSamples(length, attack, decay, release)]
  IN  [e1 EXCEPT !.stages = [i \in 1..length |-> EnvStage(e1, i - 1)],
                 !.resultLength = length,
                 !.op = "applyEnvelope"]

\* ------------------------------------------------------------------ inputs
EnvTimes == 0..MaxEnvTime
EnvLengths == 0..MaxEnvLength

\* ----------------------------------------------------------------- actions
\* applyEnvelope is called with the buffer and the times at hand.
Envelope ==
  /\ env' = ApplyEnvelope(env, env.length, env.attack, env.decay, env.release)
  /\ UNCHANGED notENV

(***************************************************************************)
(* The buffer operations of the server's synthesis (lowpass, mix,          *)
(* normalize in content-generator.js) and the mixer's _normalizeBuffer.    *)
(* A buffer is [num, den]: sample i is num[i] / den hundredths, so that    *)
(* quotients are exact; a buffer handed in has den = 1.  A call records    *)
(* the arguments as they were (in1, in2), as they are after it (in1After,  *)
(* in2After), the buffer the result is in (out) and whether that buffer    *)
(* is a new allocation or the argument itself (returned).                  *)
(***************************************************************************)

\* ------------------------------------------------------------------ bounds
\* Samples of a buffer, at most.
MaxDspLen == 2

\* The sample value 1.0, in hundredths.
DspOne == 100

Abs(x) == IF x < 0 THEN -x ELSE x

Buf(samples) == [num |-> samples, den |-> 1]

RECURSIVE PeakNoAbs(_)
\* The largest sample, signs kept.
PeakNoAbs(samples) ==
  IF samples = << >> THEN 0
  ELSE LET rest == PeakNoAbs(Tail(samples))
       IN  IF Head(samples) > rest THEN Head(samples) ELSE rest

RECURSIVE Peak(_)
\* max = Math.max(max, Math.abs(buffer[i])) over the buffer, from 0.
Peak(samples) ==
  IF samples = << >> THEN 0
  ELSE LET rest == Peak(Tail(samples))
       IN  IF Abs(Head(samples)) > rest THEN Abs(Head(samples)) ELSE rest

RECURSIVE Power(_, _)
Power(b, n) == IF n = 0 THEN 1 ELSE b * Power(b, n - 1)

RECURSIVE LowpassNum(_, _, _, _)
\* The numerator of result[i - 1] over alphaDen^(i - 1):
\* result[i] = result[i - 1] + alpha * (buffer[i] - result[i - 1]).
LowpassNum(samples, i, alphaNum, alphaDen) ==
  IF i = 1 THEN samples[1]
  ELSE LowpassNum(samples, i - 1, alphaNum, alphaDen) * (alphaDen - alphaNum)
         + alphaNum * samples[i] * Power(alphaDen, i - 2)

\* lowpass(buffer, cutoff, sampleRate) with alpha = alphaNum / alphaDen.
Lowpass(buffer, alphaNum, alphaDen) ==
  LET n == Len(buffer.num)
  IN  [ in1After |-> buffer,
        out      |-> [ num |-> [i \in 1..n |->
                                  LowpassNum(buffer.num, i, alphaNum, alphaDen)
                                    * Power(alphaDen, n - i)],
                       den |-> IF n = 0 THEN 1 ELSE Power(alphaDen, n - 1) ],
        returned |-> "new",
        error    |-> "none" ]

\* buffers[i][j]: undefined, NaN in arithmetic, past the end of the array.
At(samples, j) == IF j <= Len(samples) THEN samples[j] ELSE NaN

\* mix(buffers, gains) for one or two buffers; every gain is gainNum /
\* gainDen (1 / 1 when gains is null).
Mix(buffers, gainNum, gainDen) ==
  IF Len(buffers) = 0
    THEN [ out |-> Buf(<< >>), returned |-> "new", error |-> "none" ]
    ELSE LET length == Len(buffers[1].num)
             Sum(j) == IF Len(buffers) = 1
                         THEN Times(At(buffers[1].num, j), gainNum)
                         ELSE Plus(Times(At(buffers[1].num, j), gainNum),
                                   Times(At(buffers[2].num, j), gainNum))
         IN  [ out      |-> [ num |-> [j \in 1..length |-> Sum(j)], den |-> gainDen ],
               returned |-> "new",
               error    |-> "none" ]

\* normalize(buffer, target) with the peak found without Math.abs.
NormalizeNoAbs(buffer, target) ==
  LET max == PeakNoAbs(buffer.num)
  IN  IF max = 0
        THEN [ in1After |-> buffer, out |-> buffer, returned |-> "input",
               error |-> "none" ]
        ELSE [ in1After |-> buffer,
               out      |-> [ num |-> [i \in 1..Len(buffer.num) |->
                                         buffer.num[i] * target],
                              den |-> max ],
               returned |-> "new",
               error    |-> "none" ]

\* normalize(buffer, target): result[i] = buffer[i] * (target / max).
Normalize(buffer, target) ==
  LET max == Peak(buffer.num)
  IN  IF max = 0
        THEN [ in1After |-> buffer, out |-> buffer, returned |-> "input",
               error |-> "none" ]
        ELSE [ in1After |-> buffer,
               out      |-> [ num |-> [i \in 1..Len(buffer.num) |->
                                         buffer.num[i] * target],
                              den |-> max ],
               returned |-> "new",
               error    |-> "none" ]

\* AudioMixer._normalizeBuffer(buffer), one channel: data[i] *= 0.99 / max
\* when max > 1.
NormalizeBuffer(buffer) ==
  LET max == Peak(buffer.num)
      scaled == [ num |-> [i \in 1..Len(buffer.num) |-> buffer.num[i] * 99],
                  den |-> max ]
      after == IF max > DspOne THEN scaled ELSE buffer
  IN  [ in1After |-> after, out |-> after, returned |-> "input", error |-> "none" ]

DspNone ==
  [ op |-> "new", in1 |-> Buf(<< >>), in2 |-> Buf(<< >>), target |-> 0,
    in1After |-> Buf(<< >>), in2After |-> Buf(<< >>), out |-> Buf(<< >>),
    returned |-> "none", error |-> "none" ]

\* The call's outcome, recorded.
DspCall(d, op, r) ==
  [d EXCEPT !.op = op,
            !.in1After = IF "in1After" \in DOMAIN r THEN r.in1After ELSE d.in1,
            !.in2After = d.in2,
            !.out = r.out, !.returned = r.returned, !.error = r.error]

\* ------------------------------------------------------------------ inputs
\* Samples: -1.5, 0, 1.0.
DspSamples == {-150, 0, 100}

DspBuffers == UNION {[1..n -> DspSamples] : n \in 0..MaxDspLen}

\* target: the default 0.95, and the 0.9 of the generators.
DspTargets == {95, 90}

\* ----------------------------------------------------------------- actions
DspLowpass ==
  /\ dsp' = DspCall(dsp, "lowpass", Lowpass(dsp.in1, 1, 2))
  /\ UNCHANGED notDSP

\* mix([a, b])
DspMix ==
  /\ dsp' = DspCall(dsp, "mix", Mix(<< dsp.in1, dsp.in2 >>, 1, 1))
  /\ UNCHANGED notDSP

\* mix([a, b], [0.5, 0.5])
DspMixGains ==
  /\ dsp' = DspCall(dsp, "mix", Mix(<< dsp.in1, dsp.in2 >>, 1, 2))
  /\ UNCHANGED notDSP

DspNormalize ==
  /\ dsp' = DspCall(dsp, "normalize", Normalize(dsp.in1, dsp.target))
  /\ UNCHANGED notDSP

DspNormalizeBuffer ==
  /\ dsp' = DspCall(dsp, "normalizeBuffer", NormalizeBuffer(dsp.in1))
  /\ UNCHANGED notDSP

(***************************************************************************)
(* The caption templates' rotation (ContentGenerator in                    *)
(* content-generator.js) for one category with templates 1..n.  Time is    *)
(* in days; lastUsed[t] = 0 is a template never used.  head is the entry   *)
(* of usageHistory that sorts first by descending timestamp: the first     *)
(* pushed among those with the latest timestamp.                           *)
(***************************************************************************)

\* ------------------------------------------------------------------ bounds
\* Templates of the category, at most.
MaxTemplates == 2
\* The clock, in days, at most.
MaxNow == 9

\* rotation_settings?.cooldown_days || 7
CooldownDays == 7

TplNone ==
  [ n |-> 0, now |-> 1, lastUsed |-> [t \in 1..MaxTemplates |-> 0],
    head |-> [template_id |-> 0, timestamp |-> 0],
    selected |-> 0, op |-> "new", result |-> "ok" ]

\* isTemplateAvailable(templateId, cooldownDays)
IsTemplateAvailable(g, templateId) ==
  \/ g.lastUsed[templateId] = 0
  \/ g.now - g.lastUsed[templateId] > CooldownDays

\* getAvailableTemplates(categoryId): the available templates, in the
\* category's order.
GetAvailableTemplates(g) ==
  SelectSeq([t \in 1..g.n |-> t], LAMBDA t : IsTemplateAvailable(g, t))

RECURSIVE SelectLeastRecentlyUsed(_, _)
\* selectLeastRecentlyUsed(templates): reduce from the left, a later
\* template wins only with a strictly older lastUsed.
SelectLeastRecentlyUsed(g, templates) ==
  IF Len(templates) = 1 THEN templates[1]
  ELSE LET oldest == SelectLeastRecentlyUsed(g, SubSeq(templates, 1, Len(templates) - 1))
           current == templates[Len(templates)]
       IN  IF g.lastUsed[current] < g.lastUsed[oldest] THEN current ELSE oldest

\* selectSequential(categoryId, templates)
SelectSequential(g, templates) ==
  LET found == {i \in 1..Len(templates) : templates[i] = g.head.template_id}
      lastUsedIndex == IF found = {} THEN -1 ELSE (CHOOSE i \in found : TRUE) - 1
  IN  templates[((lastUsedIndex + 1) % Len(templates)) + 1]

\* selectTemplate(categoryId, strategy): the templates it may return (0 is
\* null); with no template available it returns the category's first.
SelectTemplate(g, strategy) ==
  LET availableTemplates == GetAvailableTemplates(g)
  IN  IF Len(availableTemplates) = 0
        THEN IF g.n >= 1 THEN {1} ELSE {0}
        ELSE CASE strategy = "least_recently_used" ->
                    {SelectLeastRecentlyUsed(g, availableTemplates)}
               [] strategy = "sequential" ->
                    {SelectSequential(g, availableTemplates)}
               [] OTHER ->
                    {availableTemplates[i] : i \in 1..Len(availableTemplates)}

\* markTemplateUsed(templateId, categoryId)
MarkTemplateUsed(g, templateId) ==
  [g EXCEPT !.lastUsed[templateId] = g.now,
            !.head = IF g.now > @.timestamp
                       THEN [template_id |-> templateId, timestamp |-> g.now]
                       ELSE @]

\* generateCaption(categoryId, options) that has selected template.
GenerateCaption(g, template) ==
  IF template = 0
    THEN [g EXCEPT !.op = "generateCaption", !.selected = 0, !.result = "error"]
    ELSE [MarkTemplateUsed(g, template) EXCEPT
            !.op = "generateCaption", !.selected = template, !.result = "ok"]

\* ------------------------------------------------------------------ inputs
Strategies == {"random", "least_recently_used", "sequential"}

\* ----------------------------------------------------------------- actions
Caption ==
  /\ \E strategy \in Strategies :
       \E template \in SelectTemplate(tpl, strategy) :
         tpl' = GenerateCaption(tpl, template)
  /\ UNCHANGED notTPL

\* Date.now() moves on.
ClockTick ==
  /\ \E days \in {1, CooldownDays} :
       /\ tpl.now + days <= MaxNow
       /\ tpl' = [tpl EXCEPT !.now = @ + days, !.op = "tick"]
  /\ UNCHANGED notTPL

(***************************************************************************)
(* The server's manifest file (server.js): readManifest / writeManifest    *)
(* and the handlers that read, change and write back the whole manifest:   *)
(* POST /api/generate and the cron job (generateVideoBatch) and POST       *)
(* /api/videos/:id/mark-downloaded.  A handler runs from one await to the  *)
(* next in one step; manifest is its local copy.  added and marked are the *)
(* videos and the flags that responses have reported as done; repeated     *)
(* tells that a video was marked again after it was counted.               *)
(***************************************************************************)

\* ------------------------------------------------------------------ bounds
\* Videos generated, at most.
MaxVideos == 1
\* Handlers in flight at once, at most, where they may overlap.
MaxRequests == 2

VideoIds == 1..MaxVideos

\* The manifest ensureDataDir writes.
InitialManifest ==
  [ videos |-> {}, downloaded |-> {}, wasCounted |-> {},
    totalGenerated |-> 0, totalDownloaded |-> 0 ]

IdleRequest == [ kind |-> "none", pc |-> "idle", id |-> 0, manifest |-> InitialManifest ]

SrvNone ==
  [ limit |-> 0, file |-> InitialManifest, nextId |-> 1,
    requests |-> [p \in 1..MaxRequests |-> IdleRequest],
    added |-> {}, marked |-> {}, repeated |-> FALSE, op |-> "new" ]

\* The handlers are interchangeable: a request takes the first free one.
FreeSlot(v, p) ==
  /\ v.requests[p].pc = "idle"
  /\ \A q \in DOMAIN v.requests : q < p => v.requests[q].pc # "idle"

InFlight(v) == {p \in DOMAIN v.requests : v.requests[p].pc # "idle"}

\* mark-downloaded between its two awaits, counting on every call.
MarkDownloadedAlwaysCounts(manifest, id) ==
  [manifest EXCEPT !.downloaded = @ \cup {id},
                   !.totalDownloaded = @ + 1,
                   !.wasCounted = @ \cup {id}]

\* mark-downloaded between its two awaits: set the flag, count the video
\* unless wasCounted.
MarkDownloaded(manifest, id) ==
  [manifest EXCEPT !.downloaded = @ \cup {id},
                   !.totalDownloaded = IF id \in manifest.wasCounted THEN @ ELSE @ + 1,
                   !.wasCounted = @ \cup {id}]

\* await readManifest() resolves in handler p, and the handler runs on to
\* its next await (or to its 404 response).
SrvRead(v, p) ==
  LET r == v.requests[p]
      manifest == v.file
  IN  CASE r.kind = "mark" ->
             IF r.id \notin manifest.videos
               THEN [v EXCEPT !.requests[p] = IdleRequest]
               ELSE [v EXCEPT !.requests[p].manifest = MarkDownloaded(manifest, r.id),
                              !.requests[p].pc = "write"]
        [] r.pc = "read2" ->
             [v EXCEPT !.requests[p].manifest = manifest, !.requests[p].pc = "write2"]
        [] OTHER ->
             [v EXCEPT !.requests[p].manifest = manifest, !.requests[p].pc = "generate"]

\* generateVideoBatch: await generateVideo(topics) resolves; the video is
\* pushed to the local manifest.
SrvGenerate(v, p) ==
  [v EXCEPT !.requests[p].manifest.videos = @ \cup {v.nextId},
            !.requests[p].manifest.totalGenerated = @ + 1,
            !.requests[p].id = v.nextId,
            !.requests[p].pc = "write",
            !.nextId = @ + 1]

\* await writeManifest(manifest) resolves in handler p: the file holds the
\* handler's copy, and the handler reports.
SrvWrite(v, p) ==
  LET r == v.requests[p]
      v1 == [v EXCEPT !.file = r.manifest]
  IN  CASE r.kind = "mark" ->
             [v1 EXCEPT !.marked = @ \cup {r.id},
                        !.repeated = @ \/ r.id \in v.marked,
                        !.requests[p] = IdleRequest]
        [] r.kind = "cron" /\ r.pc = "write" ->
             [v1 EXCEPT !.added = @ \cup {r.id}, !.requests[p].pc = "read2"]
        [] r.kind = "generate" ->
             [v1 EXCEPT !.added = @ \cup {r.id}, !.requests[p] = IdleRequest]
        [] OTHER ->
             [v1 EXCEPT !.requests[p] = IdleRequest]

\* ----------------------------------------------------------------- actions
\* POST /api/videos/:id/mark-downloaded arrives.
RequestMark ==
  /\ Cardinality(InFlight(srv)) < srv.limit
  /\ \E p \in DOMAIN srv.requests, id \in VideoIds :
       /\ FreeSlot(srv, p)
       /\ srv' = [srv EXCEPT !.requests[p] = [IdleRequest EXCEPT !.kind = "mark",
                                                !.pc = "read", !.id = id],
                             !.op = "mark"]
  /\ UNCHANGED notSRV

\* POST /api/generate arrives (count = 1).
RequestGenerate ==
  /\ Cardinality(InFlight(srv)) < srv.limit
  /\ srv.nextId + Cardinality({p \in InFlight(srv) : srv.requests[p].pc \in {"read", "generate"}
                                                      /\ srv.requests[p].kind # "mark"})
       <= MaxVideos
  /\ \E p \in DOMAIN srv.requests :
       /\ FreeSlot(srv, p)
       /\ srv' = [srv EXCEPT !.requests[p] = [IdleRequest EXCEPT !.kind = "generate",
                                                !.pc = "read"],
                             !.op = "generate"]
  /\ UNCHANGED notSRV

\* The cron job fires (one video).
CronFires ==
  /\ Cardinality(InFlight(srv)) < srv.limit
  /\ srv.nextId + Cardinality({p \in InFlight(srv) : srv.requests[p].pc \in {"read", "generate"}
                                                      /\ srv.requests[p].kind # "mark"})
       <= MaxVideos
  /\ \E p \in DOMAIN srv.requests :
       /\ FreeSlot(srv, p)
       /\ srv' = [srv EXCEPT !.requests[p] = [IdleRequest EXCEPT !.kind = "cron",
                                                !.pc = "read"],
                             !.op = "cron"]
  /\ UNCHANGED notSRV

ManifestRead ==
  /\ \E p \in DOMAIN srv.requests :
       /\ srv.requests[p].pc \in {"read", "read2"}
       /\ srv' = [SrvRead(srv, p) EXCEPT !.op = "read"]
  /\ UNCHANGED notSRV

VideoGenerated ==
  /\ \E p \in DOMAIN srv.requests :
       /\ srv.requests[p].pc = "generate"
       /\ srv' = [SrvGenerate(srv, p) EXCEPT !.op = "generated"]
  /\ UNCHANGED notSRV

ManifestWritten ==
  /\ \E p \in DOMAIN srv.requests :
       /\ srv.requests[p].pc \in {"write", "write2"}
       /\ srv' = [SrvWrite(srv, p) EXCEPT !.op = "written"]
  /\ UNCHANGED notSRV

(***************************************************************************)
(* generateSampleVideos (generate-samples-final.js).  videos is the        *)
(* manifest's video list as read, a video standing for its id and its file *)
(* `${id}.mp4`; files is the set of videos whose file is in the data       *)
(* directory.  Samples are the ids 1..MaxSamples in the order of           *)
(* SAMPLE_VIDEOS, 0 is a video of another origin.  i is the sample the     *)
(* loop is at.  id, existed, removed and unlinked describe the last        *)
(* iteration: its sample, whether the manifest had it, the entries taken   *)
(* from the list and the files deleted before the sample was generated.    *)
(***************************************************************************)

\* ------------------------------------------------------------------ bounds
\* Entries of SAMPLE_VIDEOS.
MaxSamples == 2

SampleIds == 1..MaxSamples

GsNone ==
  [ videos |-> <<>>, files |-> {}, i |-> 0, generated |-> 0, written |-> FALSE,
    id |-> 0, existed |-> FALSE, removed |-> {}, unlinked |-> {}, op |-> "new" ]

\* manifest.videos.findIndex(v => v.id === id), from 1; 0 for -1.
FindIndex(videos, id) ==
  IF \E k \in DOMAIN videos : videos[k] = id
    THEN CHOOSE k \in DOMAIN videos :
           videos[k] = id /\ \A j \in DOMAIN videos : videos[j] = id => k <= j
    ELSE 0

\* videos.splice(k, 1)
Splice(videos, k) ==
  [j \in 1..(Len(videos) - 1) |-> IF j < k THEN videos[j] ELSE videos[j + 1]]

\* One iteration of the loop for sample id; generateVideo resolves (ok) or
\* rejects.
GsIteration(g, id, ok) ==
  LET existingIndex == FindIndex(g.videos, id)
      spliced == IF existingIndex # 0 THEN Splice(g.videos, existingIndex) ELSE g.videos
      \* manifest.videos[existingIndex]?.filename, read after the splice
      oldFile == IF existingIndex # 0 /\ existingIndex <= Len(spliced)
                   THEN {spliced[existingIndex]} ELSE {}
      kept == g.files \ oldFile
  IN  [g EXCEPT !.videos = IF ok THEN Append(spliced, id) ELSE spliced,
                !.files = IF ok THEN kept \cup {id} ELSE kept,
                !.generated = IF ok THEN @ + 1 ELSE @,
                !.i = @ + 1,
                !.id = id,
                !.existed = existingIndex # 0,
                !.removed = {g.videos[k] : k \in DOMAIN g.videos} \
                              {spliced[k] : k \in DOMAIN spliced},
                !.unlinked = g.files \ kept,
                !.op = "sample"]

\* ----------------------------------------------------------------- actions
\* The loop body runs for the next entry of SAMPLE_VIDEOS.
SampleIteration ==
  /\ gs.i \in SampleIds
  /\ \E ok \in BOOLEAN : gs' = GsIteration(gs, gs.i, ok)
  /\ UNCHANGED notGS

\* After the loop: the manifest is written if a video was generated.
SamplesDone ==
  /\ gs.i = MaxSamples + 1
  /\ gs.op # "done"
  /\ gs' = [gs EXCEPT !.written = gs.generated > 0, !.op = "done"]
  /\ UNCHANGED notGS

(***************************************************************************)
(* wrapText (VideoRenderer.wrapText, and the copies in                     *)
(* generate-samples-final.js and in the page script).  A text is a         *)
(* sequence of characters; measureText adds up the characters' advance     *)
(* widths.  steps records, for each word after the first, the line that    *)
(* was measured and whether the word was appended.                         *)
(***************************************************************************)

\* ------------------------------------------------------------------ bounds
\* Characters in a text, at most.
MaxTextLen == 3

WrNone == [ text |-> <<>>, maxWidth |-> 0, lines |-> <<>>, steps |-> <<>>, op |-> "new" ]

\* ctx.measureText(s).width, in units of the width of "a".
RECURSIVE MeasureText(_)
MeasureText(str) ==
  IF str = <<>> THEN 0
  ELSE (IF Head(str) = "W" THEN 2 ELSE 1) + MeasureText(Tail(str))

\* text.split(' ')
RECURSIVE SplitFrom(_, _, _, _)
SplitFrom(text, i, word, words) ==
  IF i > Len(text) THEN Append(words, word)
  ELSE IF text[i] = " "
    THEN SplitFrom(text, i + 1, <<>>, Append(words, word))
    ELSE SplitFrom(text, i + 1, Append(word, text[i]), words)

Split(text) == SplitFrom(text, 1, <<>>, <<>>)

\* lines.join(' ')
RECURSIVE Join(_)
Join(lines) ==
  IF Len(lines) = 0 THEN <<>>
  ELSE IF Len(lines) = 1 THEN lines[1]
  ELSE lines[1] \o <<" ">> \o Join(Tail(lines))

\* The loop of wrapText from word i on.
RECURSIVE WrapFrom(_, _, _, _, _, _)
WrapFrom(words, i, currentLine, lines, steps, maxWidth) ==
  IF i > Len(words)
    THEN [lines |-> Append(lines, currentLine), steps |-> steps]
    ELSE LET measured == currentLine \o <<" ">> \o words[i]
             appended == MeasureText(measured) < maxWidth
         IN  WrapFrom(words, i + 1,
                      IF appended THEN measured ELSE words[i],
                      IF appended THEN lines ELSE Append(lines, currentLine),
                      Append(steps, [line |-> measured, appended |-> appended]),
                      maxWidth)

\* wrapText(text, maxWidth)
WrapText(text, maxWidth) ==
  LET words == Split(text)
  IN  WrapFrom(words, 2, words[1], <<>>, <<>>, maxWidth)

\* ----------------------------------------------------------------- actions
WrapTextCall ==
  /\ wr.op = "new"
  /\ LET r == WrapText(wr.text, wr.maxWidth)
     IN  wr' = [wr EXCEPT !.lines = r.lines, !.steps = r.steps, !.op = "wrapText"]
  /\ UNCHANGED notWR


\* The components added last, untouched.
RestIdle ==
  dsp = DspNone /\ tpl = TplNone /\ srv = SrvNone /\ gs = GsNone /\ wr = WrNone

(***************************************************************************)
(* Specifications                                                          *)
(***************************************************************************)

InitVR == vr = VRInit /\ pg = PGInit /\ cap = CapNone /\ bt = BtNone /\ RestIdle /\ env = EnvNone /\ av = AvInit /\ wav = WavNone /\ am = AMInit("running")

NextVR == VRNext \/ PGNext

\* The live renderer and the page loop, with no assumption on scheduling.
SpecVR == InitVR /\ [][NextVR]_vars

\* The same under the browser's scheduling: a scheduled animation-frame
\* callback is eventually run and a queued event is eventually delivered.
SpecVRFair ==
  /\ InitVR /\ [][NextVR]_vars
  /\ WF_vars(RafFire) /\ WF_vars(RecorderStopEvent)
  /\ WF_vars(PageRafFire) /\ WF_vars(PageStopEvent) /\ WF_vars(PageLoadEnd)

InitAM == vr = VRInit /\ pg = PGInit /\ cap = CapNone /\ bt = BtNone /\ RestIdle /\ env = EnvNone /\ av = AvInit /\ wav = WavNone /\ am = AMInit("running")

NextAM ==
  \/ LoadDefaultTrack \/ SetTTSAudioFromBuffer \/ SetVolumes \/ SetMasterVolume
  \/ PlayDucking \/ MixerStop \/ TtsEnded \/ TtsEndedStale \/ DuckTick \/ GainApproach
  \/ FadeOut \/ FadeOutDone \/ Export

\* The mixer's gain graph: every call, timer and event that writes a gain,
\* on a running context.
SpecAM == InitAM /\ [][NextAM]_vars

InitPlay ==
  /\ vr = VRInit /\ pg = PGInit /\ cap = CapNone /\ bt = BtNone /\ RestIdle /\ env = EnvNone /\ av = AvInit /\ wav = WavNone
  /\ am \in {AMInit("running"), AMInit("suspended")}

NextPlay ==
  \/ LoadDefaultTrack \/ SetTTSAudioFromBuffer \/ Play \/ PlayResumed
  \/ Pause \/ Resume \/ MixerStop \/ Destroy \/ TtsEnded \/ TtsEndedStale
  \/ DuckTick \/ Export

\* The mixer's playback life cycle, on a context that may be suspended (as
\* one created before a user gesture is) or closed.
SpecPlay == InitPlay /\ [][NextPlay]_vars

InitConfig == vr = VRInit /\ pg = PGInit /\ cap = CapNone /\ bt = BtNone /\ RestIdle /\ env = EnvNone /\ av = AvInit /\ wav = WavNone /\ am = AMInit("running")

NextConfig == SetAnyVolumes \/ SetDucking

\* The mixer's settings under any numbers a caller passes.
SpecConfig == InitConfig /\ [][NextConfig]_vars

InitExport == vr = VRInit /\ pg = PGInit /\ cap = CapNone /\ bt = BtNone /\ RestIdle /\ env = EnvNone /\ av = AvInit /\ wav = WavNone /\ am = AMInit("running")

NextExport ==
  \/ LoadTrackFromBuffer \/ SetTTSAudio \/ SetVolumes \/ Export \/ ExportFor
  \/ Destroy

\* Offline export of every track and speech loaded, for every duration.
SpecExport == InitExport /\ [][NextExport]_vars

InitWav ==
  /\ vr = VRInit /\ pg = PGInit /\ cap = CapNone /\ bt = BtNone /\ RestIdle /\ env = EnvNone /\ av = AvInit /\ am = AMInit("running")
  /\ \E b \in WavBuffers, rate \in SampleRates :
       wav = [ left |-> b.left, right |-> b.right, sampleRate |-> rate,
               bytes |-> << >>, op |-> "new" ]

NextWav == EncodeBrowser \/ EncodeServer

\* Both encoders on every stereo buffer of a few frames.
SpecWav == InitWav /\ [][NextWav]_vars

InitQuant ==
  /\ vr = VRInit /\ pg = PGInit /\ cap = CapNone /\ bt = BtNone /\ RestIdle /\ env = EnvNone /\ av = AvInit /\ am = AMInit("running")
  /\ \E n \in QuantSamples :
       wav = [ left |-> << n >>, right |-> << 0 >>, sampleRate |-> 44100,
               bytes |-> << >>, op |-> "new" ]

\* Both encoders on every single sample.
SpecQuant == InitQuant /\ [][NextWav]_vars

InitAv ==
  /\ vr = VRInit /\ pg = PGInit /\ cap = CapNone /\ bt = BtNone /\ RestIdle /\ env = EnvNone /\ wav = WavNone /\ am = AMInit("running")
  /\ av = AvInit

NextAv == AvatarSetState \/ AvatarFrame \/ AvatarStart \/ AvatarStop

\* The avatar: state changes between the frames of its animation.
SpecAv == InitAv /\ [][NextAv]_vars

NextAvFair == AvatarSetState \/ AvatarTick \/ AvatarRestart \/ AvatarStop

\* The avatar over any number of frames: a scheduled animation frame is
\* eventually rendered.
SpecAvFair == InitAv /\ [][NextAvFair]_vars /\ WF_vars(AvatarTick)

\* The caption of a render: any compositor, caption, duration and text
\* speed, drawn first at elapsed time 0.
InitCaption ==
  /\ vr = VRInit /\ pg = PGInit /\ av = AvInit /\ wav = WavNone
  /\ am = AMInit("running") /\ bt = BtNone /\ RestIdle /\ env = EnvNone
  /\ \E impl \in {"renderer", "page", "batch"}, words \in CapWords :
       \E duration \in (IF impl = "batch" THEN BatchFrames ELSE CapDurations),
          option \in (IF impl = "renderer" THEN TextSpeedOptions ELSE {0}) :
         LET c == [ impl |-> impl, words |-> words, duration |-> duration,
                    textSpeed |-> TextSpeed(option), elapsed |-> 0, visible |-> 0 ]
         IN  cap = [c EXCEPT !.visible = Visible(c, 0)]

NextCaption == CaptionRenderer \/ CaptionPage \/ CaptionBatch

SpecCaption == InitCaption /\ [][NextCaption]_vars

InitBatch == vr = VRInit /\ pg = PGInit /\ cap = CapNone /\ bt = BtNone /\ RestIdle /\ env = EnvNone /\ av = AvInit /\ wav = WavNone /\ am = AMInit("running")

NextBatch ==
  \/ BatchGenerate \/ BatchGenerateAgain
  \/ BatchFrame \/ BatchFrameWritten \/ BatchEncoded

SpecBatch == InitBatch /\ [][NextBatch]_vars

\* A buffer and an attack, a decay and a release time, before the call.
InitEnv ==
  /\ vr = VRInit /\ pg = PGInit /\ av = AvInit /\ wav = WavNone
  /\ am = AMInit("running") /\ cap = CapNone /\ bt = BtNone /\ RestIdle
  /\ \E length \in EnvLengths, attack \in EnvTimes, decay \in EnvTimes,
        release \in EnvTimes :
       env = [EnvNone EXCEPT !.length = length, !.attack = attack,
                             !.decay = decay, !.release = release]

NextEnv == Envelope

SpecEnv == InitEnv /\ [][NextEnv]_vars

\* Every component but the ones a specification below is about.
Base ==
  /\ vr = VRInit /\ pg = PGInit /\ am = AMInit("running") /\ wav = WavNone
  /\ av = AvInit /\ cap = CapNone /\ bt = BtNone /\ env = EnvNone

\* Two buffers and a target, before a call.
InitDsp ==
  /\ Base /\ tpl = TplNone /\ srv = SrvNone /\ gs = GsNone /\ wr = WrNone
  /\ \E a \in DspBuffers, b \in DspBuffers, target \in DspTargets :
       dsp = [DspNone EXCEPT !.in1 = Buf(a), !.in2 = Buf(b), !.target = target]

NextDsp == DspLowpass \/ DspMix \/ DspMixGains \/ DspNormalize \/ DspNormalizeBuffer

SpecDsp == InitDsp /\ [][NextDsp]_vars

\* A category of 0..MaxTemplates templates, none used yet.
InitTpl ==
  /\ Base /\ dsp = DspNone /\ srv = SrvNone /\ gs = GsNone /\ wr = WrNone
  /\ \E n \in 0..MaxTemplates : tpl = [TplNone EXCEPT !.n = n]

NextTpl == Caption \/ ClockTick

SpecTpl == InitTpl /\ [][NextTpl]_vars

\* The server, with the number of requests its clients keep in flight at
\* once: limit = 1 is a client that waits for each response.
InitManifest ==
  /\ Base /\ dsp = DspNone /\ tpl = TplNone /\ gs = GsNone /\ wr = WrNone
  /\ \E limit \in 1..MaxRequests : srv = [SrvNone EXCEPT !.limit = limit]

NextManifest ==
  \/ RequestMark \/ RequestGenerate \/ CronFires
  \/ ManifestRead \/ VideoGenerated \/ ManifestWritten

SpecManifest == InitManifest /\ [][NextManifest]_vars

\* The manifests generateSampleVideos may find: any list of distinct videos,
\* each with its file.
GsManifests ==
  {q \in UNION {[1..n -> 0..MaxSamples] : n \in 0..(MaxSamples + 1)} :
     \A j, k \in DOMAIN q : q[j] = q[k] => j = k}

InitSamples ==
  /\ Base /\ dsp = DspNone /\ tpl = TplNone /\ srv = SrvNone /\ wr = WrNone
  /\ \E q \in GsManifests :
       gs = [GsNone EXCEPT !.videos = q, !.files = {q[k] : k \in DOMAIN q}, !.i = 1]

NextSamples == SampleIteration \/ SamplesDone

SpecSamples == InitSamples /\ [][NextSamples]_vars

WrChars == {"a", "W", " "}

WrTexts == UNION {[1..n -> WrChars] : n \in 0..MaxTextLen}

WrWidths == {3, 4}

InitWrap ==
  /\ Base /\ dsp = DspNone /\ tpl = TplNone /\ srv = SrvNone /\ gs = GsNone
  /\ \E text \in WrTexts, maxWidth \in WrWidths :
       wr = [WrNone EXCEPT !.text = text, !.maxWidth = maxWidth]

NextWrap == WrapTextCall

SpecWrap == InitWrap /\ [][NextWrap]_vars

InitLoad == vr = VRInit /\ pg = PGInit /\ cap = CapNone /\ bt = BtNone /\ RestIdle /\ env = EnvNone /\ av = AvInit /\ wav = WavNone /\ am = AMInit("running")

NextLoad ==
  \/ LoadTrack \/ LoadTrackFromBuffer \/ SetTTSAudio \/ SetTTSAudioFromBuffer
  \/ Destroy

\* Loading: every outcome of fetch and decode, for several tracks.
SpecLoad == InitLoad /\ [][NextLoad]_vars

(***************************************************************************)
(* Claims about the live render                                            *)
(***************************************************************************)

\* C1: once stop() has been called during a render (between two ticks or
\* from the onProgress callback of the running tick), no animation-frame
\* callback remains scheduled and no further frame is rendered.
C1_StopHaltsFrameLoop ==
  vr.stopped => (vr.rafQueue = {} /\ ~vr.frameAfterStop)

\* C2: stop() (and dispose()) called a second time in a row leaves the
\* renderer as the first call left it and performs no failing action: it
\* does not close an audio context that is already closed.
C2_StopIdempotent ==
  [][ ( \/ (vr.op = "stop" /\ vr'.op = "stop")
        \/ (vr.op = "dispose" /\ vr'.op = "dispose") )
      => vr' = vr ]_vars

\* A render is over: nothing scheduled, the capture stopped, the promise
\* resolved by exactly one call of resolve().
VRFinished ==
  /\ vr.rafQueue = {}
  /\ vr.mediaRecorder # "recording"
  /\ vr.promise = "resolved"
  /\ vr.resolves = 1

PGFinished ==
  /\ ~pg.rafPending
  /\ pg.recorder = "inactive"
  /\ pg.promise = "resolved"
  /\ pg.resolves = 1

C4_TrackStarted ==
  (am.op \in {"play", "playResumed"} /\ am.result = "ok")
    => (am.trackSource # 0 /\ am.isPlaying)

\* The gain is on its way to the level with the time constant, or rests at
\* the level with nothing scheduled.
Driven(g, level, tc) ==
  \/ g.target = level /\ g.tc = tc
  \/ g.target = NoTarget /\ g.value = level

\* C5: after every ducking tick that measured energy above the threshold
\* the track gain is driven toward the speech level with the attack time
\* constant, and after every other tick with a speech source it is driven
\* toward the idle level with the release time constant, whatever the
\* levels configured.
C5_TicksDriveGain ==
  /\ am.op = "duckTickVoice"
       => Driven(am.trackGain, am.musicVolume, am.duckingAttack)
  /\ am.op = "duckTickQuiet"
       => Driven(am.trackGain, am.musicVolumeIdle, am.duckingRelease)

\* C6: when the speech source the mixer is playing ends, no ducking interval
\* remains and the track gain has the idle level as its target, with the
\* release time constant.
C6_SpeechEndReleases ==
  am.op = "ttsEnded"
    => /\ ~am.duckingInterval
       /\ am.ttsSource = 0
       /\ am.trackGain.target = am.musicVolumeIdle
       /\ am.trackGain.tc = am.duckingRelease

\* C6 witness: the speech of a ducked playback has ended while the track
\* gain was still at a speech level below the idle level.
C6_Witness ==
  /\ am.op = "ttsEnded"
  /\ am.isPlaying
  /\ am.started = 0
  /\ am.trackGain.value = am.musicVolume
  /\ am.musicVolume < am.musicVolumeIdle

\* C7: no call, timer or event of the mixer changes the value of a live
\* gain instantaneously.
C7_NoInstantGainChange == am.jumps = {}

InUnit(x) == x \in 0..10

GainInUnit(g) == InUnit(g.value) /\ (g.target = NoTarget \/ InUnit(g.target))

AllInUnit(seq) == \A i \in DOMAIN seq : InUnit(seq[i])

\* C8: the value and the target of the track, speech and master gain lie in
\* [0, 1] in every state, and so does every value and target export() gives
\* the gains of its offline graph.
C8_GainsInUnitRange ==
  /\ GainInUnit(am.trackGain)
  /\ GainInUnit(am.ttsGain)
  /\ GainInUnit(am.masterGain)
  /\ (am.op = "export" /\ am.result = "ok")
       => LET og == OfflineGains(am)
          IN  /\ AllInUnit(og.trackGain)
              /\ AllInUnit(og.ttsGain)
              /\ AllInUnit(og.masterGain)
              /\ \A i \in DOMAIN og.events : InUnit(og.events[i].value)

\* C8 witness: export() of a mixer whose levels were all set from arguments
\* out of range, which is playing with ducking and had setMasterVolume
\* called with a volume above 1.
C8_Witness ==
  /\ am.op = "export" /\ am.result = "ok"
  /\ am.musicVolume = 0 /\ am.musicVolumeIdle = 10 /\ am.ttsVolume = 10
  /\ am.duckingInterval
  /\ am.trackGain.value = 0
  /\ am.masterGain.target = 10
  /\ am.ttsBuffer # NullBuffer

\* C9: a call of play() or export() with no track loaded fails, and no field
\* of the mixer, no source started and no call in waiting differs after it.
C9_NoTrackFails ==
  [][ (am'.op \in {"play", "export"} /\ am.trackBuffer = NullBuffer)
        => /\ am'.result = "error"
           /\ Mixer(am') = Mixer(am)
           /\ am'.started = am.started
           /\ am'.plays = am.plays ]_vars

\* C9 witness: play() failed on a mixer that has speech loaded and no track.
C9_Witness ==
  /\ am.op = "play" /\ am.result = "error"
  /\ am.trackBuffer = NullBuffer
  /\ am.ttsBuffer # NullBuffer
  /\ ~am.isPlaying

LoadOps ==
  {"loadTrack", "loadTrackFromBuffer", "setTTSAudio", "setTTSAudioFromBuffer"}

\* C10: a load that fails leaves trackBuffer, trackDuration, currentTrack
\* and ttsBuffer as they were; a track load that succeeds leaves a buffer, its
\* name and its duration; and whenever there is a track buffer trackDuration
\* is its duration.
C10_FailedLoadKeepsState ==
  /\ [](am.trackBuffer # NullBuffer => am.trackDuration = am.trackBuffer.duration)
  /\ []((am.op \in {"loadTrack", "loadTrackFromBuffer"} /\ am.result = "ok")
          => /\ am.trackBuffer # NullBuffer
             /\ am.currentTrack # Null
             /\ am.trackDuration = am.trackBuffer.duration)
  /\ [][ (am'.op \in LoadOps /\ am'.result = "error")
           => /\ am'.trackBuffer = am.trackBuffer
              /\ am'.trackDuration = am.trackDuration
              /\ am'.currentTrack = am.currentTrack
              /\ am'.ttsBuffer = am.ttsBuffer ]_vars

\* C10 witness: loadTrack failed on a mixer holding a track of duration 2
\* loaded as "b.mp3" and a speech buffer, all of which it still holds.
C10_Witness ==
  /\ am.op = "loadTrack" /\ am.result = "error"
  /\ am.trackBuffer = Decode(2)
  /\ am.trackDuration = 2
  /\ am.currentTrack = "b.mp3"
  /\ am.ttsBuffer # NullBuffer

\* C11: whatever numbers setVolumes has been called with, musicVolume,
\* musicVolumeIdle and ttsVolume each lie in [0, 1].
C11_VolumesInUnit ==
  InUnit(am.musicVolume) /\ InUnit(am.musicVolumeIdle) /\ InUnit(am.ttsVolume)

\* C12: whatever numbers setDucking has been called with, the attack and
\* release time constants are at least 0.01 s and the threshold is above 0.
C12_DuckingPositive ==
  /\ am.duckingAttack >= 10
  /\ am.duckingRelease >= 10
  /\ am.duckingThreshold > 0

\* C13: a successful export() has started copies of the track at 0, T, 2T,
\* ... (T the track's duration), the last of them before the target duration
\* and the next one not, and the speech once at 0 if there is speech and not
\* at all otherwise.
C13_ExportSchedule ==
  (am.op = "export" /\ am.result = "ok")
    => LET T == am.trackDuration
           s == am.offline.track
       IN  /\ am.offline.duration > 0
           /\ Len(s) >= 1
           /\ \A i \in 1..Len(s) : s[i] = (i - 1) * T
           /\ (Len(s) - 1) * T < am.offline.duration
           /\ Len(s) * T >= am.offline.duration
           /\ am.offline.tts = IF am.ttsBuffer # NullBuffer THEN << 0 >> ELSE << >>

\* C13 witness: a track of duration 2 exported with its speech for a
\* duration of 3: two copies, the second cut short.
C13_Witness ==
  /\ am.op = "export" /\ am.result = "ok"
  /\ am.trackDuration = 2
  /\ am.offline.duration = 3
  /\ am.offline.track = << 0, 2 >>
  /\ am.offline.tts = << 0 >>

\* C14: a successful export() with no speech loaded leaves the offline
\* track gain at the idle level, with no automation event scheduled on it.
C14_NoSpeechIdleGain ==
  (am.op = "export" /\ am.result = "ok" /\ am.ttsBuffer = NullBuffer)
    => LET og == OfflineGains(am)
       IN  /\ og.events = << >>
           /\ og.trackGain[Len(og.trackGain)] = am.musicVolumeIdle

\* C14 witness: export() with no speech, of a mixer whose idle level (0.3)
\* was set below its speech level (0.8).
C14_Witness ==
  /\ am.op = "export" /\ am.result = "ok"
  /\ am.ttsBuffer = NullBuffer
  /\ am.offline.tts = << >>
  /\ am.musicVolumeIdle = 3 /\ am.musicVolume = 8

(***************************************************************************)
(* Claims about the PCM encoders                                           *)
(***************************************************************************)

\* Reading a container back: the unsigned and signed little-endian fields
\* at byte k.
U16At(b, k) == b[k + 1] + 256 * b[k + 2]

U32At(b, k) == b[k + 1] + 256 * b[k + 2] + 65536 * b[k + 3] + 16777216 * b[k + 4]

I16At(b, k) == IF U16At(b, k) >= 32768 THEN U16At(b, k) - 65536 ELSE U16At(b, k)

\* The 16-bit integer the encoder that ran last gives a sample.
Quantized(n) == IF wav.op = "bufferToWav" THEN BrowserInt16(n) ELSE ServerInt16(n)

\* C15: the container either encoder gives a stereo buffer of N frames at
\* rate R has 44 + 4N bytes: "RIFF", 36 + 4N, "WAVE", "fmt ", 16, format 1,
\* 2 channels, R, byte rate 4R, block align 4, 16 bits, "data", 4N at bytes
\* 0, 4, 8, 12, 16, 20, 22, 24, 28, 32, 34, 36, 40, little-endian, then frame
\* i's left sample at byte 44 + 4i and its right sample at 44 + 4i + 2.
C15_WavLayout ==
  wav.op \in {"bufferToWav", "writeWav"}
    => LET b == wav.bytes
           N == Len(wav.left)
           R == wav.sampleRate
       IN  /\ Len(b) = 44 + 4 * N
           /\ SubSeq(b, 1, 4) = << 82, 73, 70, 70 >>
           /\ U32At(b, 4) = 36 + 4 * N
           /\ SubSeq(b, 9, 12) = << 87, 65, 86, 69 >>
           /\ SubSeq(b, 13, 16) = << 102, 109, 116, 32 >>
           /\ U32At(b, 16) = 16
           /\ U16At(b, 20) = 1
           /\ U16At(b, 22) = 2
           /\ U32At(b, 24) = R
           /\ U32At(b, 28) = 4 * R
           /\ U16At(b, 32) = 4
           /\ U16At(b, 34) = 16
           /\ SubSeq(b, 37, 40) = << 100, 97, 116, 97 >>
           /\ U32At(b, 40) = 4 * N
           /\ \A i \in 0..(N - 1) :
                /\ I16At(b, 44 + 4 * i) = Quantized(wav.left[i + 1])
                /\ I16At(b, 44 + 4 * i + 2) = Quantized(wav.right[i + 1])

\* C15 witness: the browser's container of two frames at 48 kHz whose
\* samples all differ between neighbours.
C15_Witness ==
  /\ wav.op = "bufferToWav"
  /\ wav.sampleRate = 48000
  /\ Len(wav.left) = 2
  /\ wav.left[1] = -SampleDen /\ wav.right[1] = SampleDen
  /\ wav.left[2] = 500 /\ wav.right[2] = -1
  /\ Len(wav.bytes) = 52

\* C16: the 16-bit integer either encoder writes for a sample is 32767 for
\* every sample above 1 and -32768 for every sample below -1, and is never of
\* the sign opposite to the sample's.
C16_SamplesSaturate ==
  wav.op \in {"bufferToWav", "writeWav"}
    => LET n == wav.left[1]
           q == I16At(wav.bytes, 44)
       IN  /\ q \in -32768..32767
           /\ q = Quantized(n)
           /\ n # NaN
                => /\ n > SampleDen => q = 32767
                   /\ n < -SampleDen => q = -32768
                   /\ n > 0 => q >= 0
                   /\ n < 0 => q <= 0

\* C16 witness: the browser's encoder has written 32767 for a sample
\* above 1.
C16_Witness ==
  /\ wav.op = "bufferToWav"
  /\ wav.left[1] # NaN
  /\ wav.left[1] > SampleDen
  /\ I16At(wav.bytes, 44) = 32767

\* C17: for every sample x in [-1, 1] the 16-bit integer q either encoder
\* writes satisfies |x - q / 32768| <= 1 / 32768.
C17_RoundTripOneStep ==
  wav.op \in {"bufferToWav", "writeWav"}
    => LET n == wav.left[1]
           q == I16At(wav.bytes, 44)
           d == n * 32768 - q * SampleDen
       IN  (n # NaN /\ n >= -SampleDen /\ n <= SampleDen)
             => (d <= SampleDen /\ -d <= SampleDen)

(***************************************************************************)
(* Claims about the avatar                                                 *)
(***************************************************************************)

\* The spike waves among the sound waves.
Spikes(waves) == SelectSeq(waves, LAMBDA wave : wave.isSpike)

\* C19: after setState(s) with s one of idle, talking, executing, getState()
\* returns s, and the frame rendered next adds s's rotation speed times the
\* elapsed time to the rotation angle, advances the pulse phase from 0 by the
\* elapsed share of s's pulse duration, advances exactly the first
\* particleCount-of-s particles, each by s's particle speed, and adds a spike
\* only if s has energy spikes.
C19_StateAppliesNextTick ==
  /\ []((av.op = "setState" /\ av.arg \in DOMAIN AvStates)
          => (av.result = "ok" /\ GetState(av) = av.arg))
  /\ [][ (/\ av.op = "setState" /\ av.arg \in DOMAIN AvStates
          /\ av'.op \in {"render", "start"}
          /\ av'.ticks = av.ticks + 1)
           => LET c == AvStates[av.arg]
                  deltaTime == av'.time - av.time
              IN  /\ av'.rotationAngle
                       = Plus(av.rotationAngle, c.rotationSpeed * deltaTime)
                  /\ av'.pulsePhase = PulseStep(deltaTime, c.pulseDuration)
                  /\ \A i \in 1..MaxParticles :
                       av'.particles[i]
                         = IF i <= c.particleCount
                             THEN Plus(av.particles[i], c.particleSpeed)
                             ELSE av.particles[i]
                  /\ ~c.energySpikes
                       => Len(Spikes(av'.soundWaves)) <= Len(Spikes(av.soundWaves))
                  /\ GetState(av') = av.arg ]_vars

\* C19 witness: the first frame after setState('executing') on the idle
\* avatar, 400 ms after the constructor's frame: all 35 particles advanced
\* by the executing speed, the pulse phase 400 / 900 of a turn.
C19_Witness ==
  /\ av.op = "render"
  /\ GetState(av) = "executing"
  /\ av.ticks = 2
  /\ av.time = 400
  /\ av.particles[1] = 18 /\ av.particles[13] = 15 /\ av.particles[35] = 15
  /\ av.pulsePhase = 5600
  /\ av.rotationAngle = 14000

\* C20: getState() is always one of idle, talking, executing, and setState
\* with any other name does not succeed.
C20_OnlyValidStates ==
  /\ GetState(av) \in DOMAIN AvStates
  /\ (av.op = "setState" /\ av.arg \notin DOMAIN AvStates) => av.result # "ok"

\* C21: every accepted setState call, one that names the current state
\* included, sets the pulse phase to 0 and leaves the time accumulator, the
\* rotation angle, the particles and the sound waves as they were.
C21_SetStateResetsPulseOnly ==
  [][ (av'.op = "setState" /\ av'.result = "ok")
        => /\ av'.pulsePhase = 0
           /\ av'.time = av.time
           /\ av'.rotationAngle = av.rotationAngle
           /\ av'.particles = av.particles
           /\ av'.soundWaves = av.soundWaves
           /\ av'.animationId = av.animationId
           /\ av'.scheduled = av.scheduled ]_vars

\* C21 witness: setState('idle') on the avatar that has rendered one 400 ms
\* frame in the idle state and is idle again or still: pulse phase 0, the
\* time and the idle rotation of that frame kept.
C21_Witness ==
  /\ av.op = "setState" /\ av.arg = "idle" /\ av.result = "ok"
  /\ GetState(av) = "idle"
  /\ av.pulsePhase = 0
  /\ av.time = 400
  /\ av.rotationAngle = 2000
  /\ av.particles[1] = 6

NonSpikes(waves) == SelectSeq(waves, LAMBDA wave : ~wave.isSpike)

\* C22: a frame leaves more non-spike waves than it found only in the
\* talking state and more spike waves only in the executing state, and in
\* the idle state no frame leaves more waves than it found.
C22_WavesOnlyWhenActive ==
  [][ (av'.ticks = av.ticks + 1)
        => /\ Len(NonSpikes(av'.soundWaves)) > Len(NonSpikes(av.soundWaves))
                => GetState(av) = "talking"
           /\ Len(Spikes(av'.soundWaves)) > Len(Spikes(av.soundWaves))
                => GetState(av) = "executing"
           /\ GetState(av) = "idle"
                => Len(av'.soundWaves) <= Len(av.soundWaves) ]_vars

\* C22 witness: the second frame, 400 ms long and rendered in the talking
\* state, has pushed a wave, faded to 0.52 by the same frame.
C22_Witness ==
  /\ av.op = "render" /\ av.ticks = 2
  /\ GetState(av) = "talking"
  /\ av.soundWaves = << [opacity |-> 5200, isSpike |-> FALSE] >>

\* C23: no wave with opacity zero or less is in the list after a frame (nor
\* at any other time).
C23_NoFadedWaveRemains ==
  \A i \in 1..Len(av.soundWaves) : av.soundWaves[i].opacity > 0

\* C23 witness: a frame whose filter has dropped a wave.
C23_Witness ==
  /\ av.op = "render"
  /\ av.faded > 0

(***************************************************************************)
(* Claims about the typewriter caption                                     *)
(***************************************************************************)

\* C24: for a fixed caption and duration, the number of visible words at a
\* later elapsed time is not less than at an earlier one, and it never
\* exceeds the number of words of the caption.
C24_CaptionMonotonic ==
  /\ [](cap.visible <= cap.words)
  /\ [][cap'.elapsed > cap.elapsed => cap'.visible >= cap.visible]_vars

\* C24 witness: a caption of 5 words that has grown to all 5 of them.
C24_Witness ==
  /\ cap.impl = "page"
  /\ cap.words = 5 /\ cap.visible = 5
  /\ cap.elapsed > 0 /\ cap.elapsed < cap.duration

\* C25: once the elapsed time has reached the render duration the whole
\* caption is visible.
C25_WholeCaptionAtEnd ==
  cap.elapsed >= cap.duration => cap.visible = cap.words

\* C26: at elapsed time 0 at least one word of a caption is visible.
C26_WordAtStart ==
  (cap.words >= 1 /\ cap.elapsed = 0) => cap.visible >= 1

(***************************************************************************)
(* Claims about the batch generator                                        *)
(***************************************************************************)

\* C27: the drawing of a call is, frame after frame, the four layers clear,
\* background, caption, avatar in this order: the i-th entry of the log is
\* layer (i-1) mod 4 of frame (i-1) div 4, so no layer of a frame is drawn
\* before the avatar of the frame before it.
C27_LayerOrder ==
  \A i \in 1..Len(bt.log) :
    /\ bt.log[i].frame = (i - 1) \div 4
    /\ bt.log[i].layer = << "clear", "background", "caption", "avatar" >>[((i - 1) % 4) + 1]

\* C27 witness: the second frame has been drawn after the first was written.
C27_Witness ==
  /\ bt.pc = "write"
  /\ bt.frameNum = 1
  /\ Len(bt.log) = 8
  /\ bt.log[4].layer = "avatar" /\ bt.log[4].frame = 0
  /\ bt.log[5].layer = "clear" /\ bt.log[5].frame = 1

StageCount(stage) ==
  Cardinality({i \in 1..Len(env.stages) : env.stages[i] = stage})

\* C30: when attack + decay + release is not longer than the buffer, the
\* result has the buffer's length, the four stage lengths are non-negative
\* and add up to it, the three timed stages have the floors of their times
\* in samples (the sustain stage takes what is left), and the samples take
\* the four branches in exactly these numbers.
C30_EnvelopeStages ==
  (/\ env.op = "applyEnvelope"
   /\ (env.attack + env.decay + env.release) * SAMPLE_RATE <= env.length * EnvTimeDen)
    => /\ env.resultLength = env.length
       /\ env.attackSamples >= 0 /\ env.decaySamples >= 0
       /\ env.sustainSamples >= 0 /\ env.releaseSamples >= 0
       /\ env.attackSamples + env.decaySamples + env.sustainSamples
            + env.releaseSamples = env.length
       /\ env.attackSamples * EnvTimeDen <= env.attack * SAMPLE_RATE
       /\ env.decaySamples * EnvTimeDen <= env.decay * SAMPLE_RATE
       /\ env.releaseSamples * EnvTimeDen <= env.release * SAMPLE_RATE
       /\ StageCount("attack") = env.attackSamples
       /\ StageCount("decay") = env.decaySamples
       /\ StageCount("sustain") = env.sustainSamples
       /\ StageCount("release") = env.releaseSamples

\* C30 witness: three stages of 0.0001 s (4 samples each) in a buffer of 13
\* samples; the sustain stage is the 1 sample the floors leave.
C30_Witness ==
  /\ env.op = "applyEnvelope"
  /\ env.length = 13
  /\ env.attack = 1 /\ env.decay = 1 /\ env.release = 1
  /\ env.attackSamples = 4 /\ env.decaySamples = 4 /\ env.releaseSamples = 4
  /\ env.sustainSamples = 1
  /\ env.resultLength = 13

(***************************************************************************)
(* Claims about the buffer operations                                      *)
(***************************************************************************)

\* C31: mix called with two buffers of unequal length fails with
\* LengthMismatch.
C31_MixLengthMismatch ==
  (dsp.op = "mix" /\ Len(dsp.in1.num) # Len(dsp.in2.num))
    => dsp.error = "LengthMismatch"

\* C32: normalize returns each sample times target / peak, so that the
\* largest absolute sample of the result is target, and returns the samples
\* as they are when the buffer is all zero.
C32_NormalizePeak ==
  dsp.op = "normalize" =>
    LET peak == Peak(dsp.in1.num)
    IN  IF peak = 0
          THEN dsp.out = dsp.in1
          ELSE /\ Len(dsp.out.num) = Len(dsp.in1.num)
               /\ \A i \in 1..Len(dsp.in1.num) :
                    dsp.out.num[i] * peak = dsp.in1.num[i] * dsp.target * dsp.out.den
               /\ Peak(dsp.out.num) = dsp.target * dsp.out.den

\* C32 witness: a buffer whose peak is a negative sample, normalized.
C32_Witness ==
  /\ dsp.op = "normalize"
  /\ dsp.in1 = Buf(<< 100, -150 >>)
  /\ dsp.target = 90
  /\ dsp.out = [num |-> << 9000, -13500 >>, den |-> 150]

\* C33: every buffer operation leaves its arguments' samples as they were
\* and returns a newly allocated buffer.
C33_NoInPlaceMutation ==
  dsp.op \in {"lowpass", "mix", "normalize", "normalizeBuffer"} =>
    /\ dsp.in1After = dsp.in1
    /\ dsp.in2After = dsp.in2
    /\ dsp.returned = "new"

(***************************************************************************)
(* Claims about the caption templates                                      *)
(***************************************************************************)

\* C34: the template a generateCaption call selects is not within its
\* cooldown period at the time of the call.
C34_NoSelectionInCooldown ==
  [][ (tpl'.op = "generateCaption" /\ tpl'.result = "ok")
        => IsTemplateAvailable(tpl, tpl'.selected) ]_vars

(***************************************************************************)
(* Claims about the manifest                                               *)
(***************************************************************************)

\* C35: with the requests handled one after the other, totalDownloaded is
\* the number of distinct videos marked downloaded, whenever no handler is
\* between its read and its write.
C35_DownloadsCountedOnce ==
  (srv.limit = 1 /\ InFlight(srv) = {}) =>
    /\ srv.file.totalDownloaded = Cardinality(srv.marked)
    /\ srv.file.totalDownloaded = Cardinality(srv.file.downloaded)

\* C35 witness: a video marked a second time, counted once.
C35_Witness ==
  /\ srv.limit = 1
  /\ srv.repeated
  /\ InFlight(srv) = {}
  /\ srv.marked = {1}
  /\ srv.file.totalDownloaded = 1

\* C36: once every handler has completed, the manifest holds every video a
\* response reported as generated and the downloaded flag of every video a
\* response reported as marked.
C36_NoLostUpdate ==
  InFlight(srv) = {} =>
    /\ srv.added \subseteq srv.file.videos
    /\ srv.marked \subseteq srv.file.downloaded

(***************************************************************************)
(* Claim about stale ended events                                          *)
(***************************************************************************)

\* C37: the ended event of a speech source that stop() or a later play()
\* dropped leaves the playback that holds a speech source alone: ttsSource
\* still refers to that source and the ducking interval is as it was.
C37_StaleEndedIgnored ==
  [][ (am'.op = "ttsEndedStale" /\ am.ttsSource # 0)
        => /\ am'.ttsSource = am.ttsSource
           /\ am'.duckingInterval = am.duckingInterval ]_vars

(***************************************************************************)
(* Claim about the sample generator                                        *)
(***************************************************************************)

\* C38: an iteration for a sample the manifest already has takes exactly
\* that sample's entry from the list and deletes no file but that sample's.
C38_ReplacesOnlyThatVideo ==
  (gs.op = "sample" /\ gs.existed) =>
    /\ gs.removed = {gs.id}
    /\ gs.unlinked \subseteq {gs.id}

(***************************************************************************)
(* Claim about wrapText                                                    *)
(***************************************************************************)

\* The lines joined by single spaces are the text.
WrapRoundTrip == wr.op = "wrapText" => Join(wr.lines) = wr.text

\* C39: the lines joined by single spaces are the text, and every word
\* after the first was appended to the current line exactly when the line
\* with the word is no wider than the maximum width.
C39_GreedyPartition ==
  wr.op = "wrapText" =>
    /\ Join(wr.lines) = wr.text
    /\ \A k \in DOMAIN wr.steps :
         wr.steps[k].appended <=> MeasureText(wr.steps[k].line) <= wr.maxWidth

(***************************************************************************)
(* Claim about the life of a ripple                                        *)
(***************************************************************************)

\* C40: a frame with positive elapsed time leaves every wave it keeps with
\* less opacity than before, so a wave is dropped after finitely many
\* frames; and if the avatar is idle from some time on, its frames being
\* rendered, then from some time on the list of waves is empty.
C40_RipplesFadeOut ==
  /\ [][ av'.op = "render" =>
           \A k \in DOMAIN av.soundWaves :
             \A j \in DOMAIN av'.soundWaves :
               j = k - av'.faded => av'.soundWaves[j].opacity < av.soundWaves[k].opacity ]_vars
  /\ (<>[](av.currentState = "idle" /\ av.scheduled)) => <>[](av.soundWaves = << >>)

\* C40 witness: a frame of the idle avatar has dropped the last wave.
C40_Witness ==
  /\ av.currentState = "idle"
  /\ av.scheduled
  /\ av.op = "render"
  /\ av.faded > 0
  /\ av.soundWaves = << >>

====
